---- MODULE Spec2Model ----
(***************************************************************************)
(* Model of the gyu wallet primitives (crates gyu_model and gyu-bitcoin):  *)
(* BIP32 extended keys, address and witness-program codecs and the         *)
(* transaction codec and the transaction signer, on Mainnet.               *)
(*                                                                         *)
(* Cryptographic primitives of external crates are abstracted:             *)
(*   - secp256k1 is a cyclic group of prime order CurveOrder, realised as  *)
(*     the subgroup generated by Generator in the integers mod FieldPrime; *)
(*   - SHA-256, RIPEMD-160 and HMAC-SHA512 are deterministic mixing        *)
(*     functions (Mix) with small digests.                                 *)
(* Byte layouts, Base58, base32 regrouping, tables and control flow are    *)
(* translated from the source.                                             *)
(***************************************************************************)
EXTENDS Integers, Sequences, FiniteSets, TLC

VARIABLES build, xprv, address, tx, call

vars == <<build, xprv, address, tx, call>>

(***************************************************************************)
(* Generic helpers on byte sequences                                       *)
(***************************************************************************)
Byte == 0..255

Repeat(x, n) == [i \in 1..n |-> x]

Reverse(s) == [i \in 1..Len(s) |-> s[Len(s) + 1 - i]]

\* Rust slice s[from..to] with 0-based, half-open bounds
Slice(s, from, to) == [i \in 1..(to - from) |-> s[from + i]]

\* number of leading zero elements of s, counted from position i
LeadingZeros(s, i) ==
    CHOOSE z \in 0..(Len(s) + 1 - i) :
        /\ \A j \in i..(i + z - 1) : s[j] = 0
        /\ (i + z > Len(s) \/ s[i + z] # 0)

StripZeros(s) == LET z == LeadingZeros(s, 1) IN Slice(s, z, Len(s))

\* big-endian bytes of a natural number below 2^31, in a field of `width` bytes
ToBE(n, width) ==
    [i \in 1..width |->
        LET k == width - i
        IN IF k = 0 THEN n % 256
           ELSE IF k = 1 THEN (n \div 256) % 256
           ELSE IF k = 2 THEN (n \div 65536) % 256
           ELSE IF k = 3 THEN (n \div 16777216) % 256
           ELSE 0]

\* value of a big-endian byte field that holds a number below 2^31
FromBE(s) ==
    LET n == Len(s)
        B(k) == IF n > k THEN s[n - k] ELSE 0
    IN B(0) + 256 * B(1) + 65536 * B(2) + 16777216 * B(3)

\* little-endian digit vector * from + carry, in base `to`
RECURSIVE MulAdd(_, _, _, _, _)
MulAdd(digits, i, carry, from, to) ==
    IF i > Len(digits)
    THEN IF carry = 0 THEN <<>>
         ELSE <<carry % to>> \o MulAdd(digits, i, carry \div to, from, to)
    ELSE LET v == digits[i] * from + carry
         IN <<v % to>> \o MulAdd(digits, i + 1, v \div to, from, to)

\* big-endian digits in base `from` to little-endian digits in base `to`
RECURSIVE Convert(_, _, _, _, _)
Convert(s, i, acc, from, to) ==
    IF Len(acc) >= 0 /\ i > Len(s) THEN acc
    ELSE Convert(s, i + 1, MulAdd(acc, 1, s[i], from, to), from, to)

\* group big-endian digits in pairs (value unchanged), base b -> base b*b
Pairs(s, b) ==
    LET p == IF Len(s) % 2 = 1 THEN <<0>> \o s ELSE s
    IN [i \in 1..(Len(p) \div 2) |-> p[2 * i - 1] * b + p[2 * i]]

\* split little-endian digits of base b*b into big-endian digits of base b
Unpairs(s, b) ==
    LET n == Len(s)
    IN StripZeros([i \in 1..(2 * n) |->
                     LET d == s[n - ((i - 1) \div 2)]
                     IN IF i % 2 = 1 THEN d \div b ELSE d % b])

\* positional base conversion of a big-endian digit string without leading
\* zero digits
ConvertBase(s, from, to) ==
    Unpairs(Convert(Pairs(s, from), 1, <<>>, from * from, to * to), to)

\* let v = value in Body(v), with value evaluated once
With(value, Body(_)) == CHOOSE result \in {Body(v) : v \in {value}} : TRUE

(***************************************************************************)
(* Results of fallible operations                                          *)
(***************************************************************************)
Ok(v) == [ok |-> TRUE, val |-> v]

Err(e) == [ok |-> FALSE, err |-> e]

\* an arithmetic overflow or an out-of-range index: the thread aborts
Panic == Err("panic")

(***************************************************************************)
(* Base58 (crate base58): text is a sequence of ASCII codes.               *)
(***************************************************************************)
\* "123456789ABCDEFGHJKLMNPQRSTUVWXYZabcdefghijkmnopqrstuvwxyz"
Base58Alphabet ==
    <<49, 50, 51, 52, 53, 54, 55, 56, 57,
      65, 66, 67, 68, 69, 70, 71, 72, 74, 75, 76, 77, 78,
      80, 81, 82, 83, 84, 85, 86, 87, 88, 89, 90,
      97, 98, 99, 100, 101, 102, 103, 104, 105, 106, 107,
      109, 110, 111, 112, 113, 114, 115, 116, 117, 118, 119, 120, 121, 122>>

Base58Index(c) == CHOOSE i \in 1..58 : Base58Alphabet[i] = c

to_base58(bytes) ==
    LET z == LeadingZeros(bytes, 1)
        digits == Repeat(0, z) \o ConvertBase(Slice(bytes, z, Len(bytes)), 256, 58)
    IN [i \in 1..Len(digits) |-> Base58Alphabet[digits[i] + 1]]

from_base58(text) ==
    IF \E i \in 1..Len(text) : \A j \in 1..58 : Base58Alphabet[j] # text[i]
    THEN Err("base58")
    ELSE LET digits == [i \in 1..Len(text) |-> Base58Index(text[i]) - 1]
             z == LeadingZeros(digits, 1)
         IN Ok(Repeat(0, z) \o ConvertBase(Slice(digits, z, Len(digits)), 58, 256))

(***************************************************************************)
(* Abstract hash functions                                                 *)
(***************************************************************************)
\* deterministic mixing of a sequence of small naturals: the polynomial hash
\* h := (33 * h + s[i] + i) mod 32749 folded over s from 5381, computed as a
\* composition of affine maps <<m, a>> : h |-> m * h + a
RECURSIVE MixRange(_, _, _)
MixRange(s, lo, hi) ==
    IF lo = hi THEN <<33, (s[lo] + lo) % 32749>>
    ELSE LET mid == (lo + hi) \div 2
             f == MixRange(s, lo, mid)
             g == MixRange(s, mid + 1, hi)
         IN <<(f[1] * g[1]) % 32749, (f[2] * g[1] + g[2]) % 32749>>

Mix(s) ==
    IF s = <<>> THEN 5381
    ELSE LET f == MixRange(s, 1, Len(s)) IN (5381 * f[1] + f[2]) % 32749

\* a digest of `len` bytes, domain-separated by `tag`
Digest(tag, data, len) ==
    LET h == Mix(<<tag>> \o data)
    IN [i \in 1..len |-> (h * i + (h \div 256) + 7 * i) % 256]

\* utilities::crypto::checksum : SHA256(SHA256(data)), 32 bytes
checksum(data) == Digest(1, data, 32)

\* utilities::crypto::hash160 : RIPEMD160(SHA256(bytes)), 20 bytes
hash160(bytes) == Digest(2, bytes, 20)

\* Sha256::digest, 32 bytes
sha256(bytes) == Digest(3, bytes, 32)

(***************************************************************************)
(* secp256k1, abstracted as the subgroup of order CurveOrder generated by  *)
(* Generator in the multiplicative group modulo FieldPrime.                *)
(***************************************************************************)
CurveOrder == 7

FieldPrime == 29

Generator == 16

\* number of distinct chain codes of the abstract HMAC
ChainSpace == 3

RECURSIVE PowMod(_, _)
PowMod(b, e) == IF e = 0 THEN 1 ELSE (b * PowMod(b, e - 1)) % FieldPrime

\* SecretKey::parse_slice accepts the scalar iff 0 < k < n
ValidScalar(k) == 0 < k /\ k < CurveOrder

\* PublicKey::from_secret_key : k * G
PublicFromSecret(k) == PowMod(Generator, k)

\* SecretKey::tweak_add_assign : (a + b) mod n, fails on zero
SecretTweakAdd(a, b) ==
    LET r == (a + b) % CurveOrder IN IF r = 0 THEN Err("secp256k1") ELSE Ok(r)

\* PublicKey::tweak_add_assign : P + t * G, fails on the point at infinity
PublicTweakAdd(P, t) ==
    LET r == (P * PowMod(Generator, t)) % FieldPrime
    IN IF r = 1 THEN Err("secp256k1") ELSE Ok(r)

\* PublicKey::serialize_compressed : parity byte and x coordinate (33 bytes)
serialize_compressed(P) == <<2 + (P % 2)>> \o ToBE(P, 32)

\* PublicKey::serialize : 0x04, x and y coordinates (65 bytes)
serialize_uncompressed(P) == <<4>> \o ToBE(P, 32) \o ToBE((P * P) % FieldPrime, 32)

\* SecretKey::serialize : 32 big-endian bytes
secret_serialize(k) == ToBE(k, 32)

\* HMAC-SHA512: the left half is a 256-bit number (the value CurveOrder
\* stands for every number >= n), the right half a chain code
HmacSha512(key, data) ==
    LET h == Mix(<<4>> \o key \o data)
    IN [left |-> h % (CurveOrder + 1), right |-> (h \div (CurveOrder + 1)) % ChainSpace]

\* a chain code is stored by its abstract value; its 32 bytes
chain_code_bytes(cc) == ToBE(cc, 32)

(***************************************************************************)
(* gyu_model::derivation_path::ChildIndex                                  *)
(***************************************************************************)
Normal(n) == [hardened |-> FALSE, number |-> n]

Hardened(n) == [hardened |-> TRUE, number |-> n]

is_hardened(index) == index.hardened

is_normal(index) == ~is_hardened(index)

\* u32::from(index).to_be_bytes() : Hardened sets bit 31
ChildIndexToBE(index) ==
    LET b == ToBE(index.number, 4)
    IN IF index.hardened
       THEN <<IF b[1] >= 128 THEN b[1] ELSE b[1] + 128, b[2], b[3], b[4]>>
       ELSE b

\* ChildIndex::from(u32::from_be_bytes(bytes)) : bit 31 selects Hardened
ChildIndexFromBE(b) ==
    IF b[1] >= 128 THEN Hardened(FromBE(<<b[1] - 128, b[2], b[3], b[4]>>))
    ELSE Normal(FromBE(b))

(***************************************************************************)
(* BitcoinDerivationPath on Mainnet                                        *)
(***************************************************************************)
HD_COIN_TYPE == Hardened(0)

BIP32(indices) == [kind |-> "BIP32", path |-> indices]

BIP44(triple) == [kind |-> "BIP44", path |-> triple]

BIP49(triple) == [kind |-> "BIP49", path |-> triple]

to_vec(p) ==
    IF p.kind = "BIP32"
    THEN IF Len(p.path) < 256 THEN Ok(p.path) ELSE Err("ExpectedBIP32Path")
    ELSE IF is_hardened(p.path[1]) /\ is_normal(p.path[2]) /\ is_normal(p.path[3])
         THEN Ok(<<Hardened(IF p.kind = "BIP44" THEN 44 ELSE 49), HD_COIN_TYPE,
                   p.path[1], p.path[2], p.path[3]>>)
         ELSE Err(IF p.kind = "BIP44" THEN "ExpectedBIP44Path" ELSE "ExpectedBIP49Path")

(***************************************************************************)
(* BitcoinExtendedPrivateKey / BitcoinExtendedPublicKey                    *)
(***************************************************************************)
\* the overflow of `depth + 1` on a u8: a debug build aborts, a release
\* build wraps to 0
DepthPlusOne(depth, bld) ==
    IF depth < 255 THEN Ok(depth + 1)
    ELSE IF bld = "debug" THEN Panic ELSE Ok(0)

\* ASCII of "Bitcoin seed"
BitcoinSeed == <<66, 105, 116, 99, 111, 105, 110, 32, 115, 101, 101, 100>>

new_master(seed, format) ==
    LET hmac == HmacSha512(BitcoinSeed, seed)
    IN IF ~ValidScalar(hmac.left) THEN Err("secp256k1")
       ELSE Ok([format |-> format,
                depth |-> 0,
                parent_fingerprint |-> <<0, 0, 0, 0>>,
                child_index |-> Normal(0),
                chain_code |-> hmac.right,
                private_key |-> hmac.left])

\* one iteration of the loop of BitcoinExtendedPrivateKey::derive
PrivateStep(extended_private_key, index, path, bld) ==
    LET public_key == serialize_compressed(PublicFromSecret(extended_private_key.private_key))
        data == (IF is_hardened(index)
                 THEN <<0>> \o secret_serialize(extended_private_key.private_key)
                 ELSE public_key) \o ChildIndexToBE(index)
        hmac == HmacSha512(chain_code_bytes(extended_private_key.chain_code), data)
        secret_key == SecretTweakAdd(hmac.left, extended_private_key.private_key)
        format == IF path.kind = "BIP49" THEN "P2SH_P2WPKH"
                  ELSE extended_private_key.format
        depth == DepthPlusOne(extended_private_key.depth, bld)
    IN IF ~ValidScalar(hmac.left) THEN Err("secp256k1")
       ELSE IF ~secret_key.ok THEN secret_key
       ELSE IF ~depth.ok THEN depth
       ELSE Ok([format |-> format,
                depth |-> depth.val,
                parent_fingerprint |-> Slice(hash160(public_key), 0, 4),
                child_index |-> index,
                chain_code |-> hmac.right,
                private_key |-> secret_key.val])

\* the loop over path.to_vec(), indices lo..hi; `acc` is the key built so
\* far or the error that ended the loop (the fold is split in halves)
RECURSIVE PrivateLoop(_, _, _, _, _, _)
PrivateLoop(acc, vec, lo, hi, path, bld) ==
    IF lo > hi \/ ~acc.ok THEN acc
    ELSE IF lo = hi THEN PrivateStep(acc.val, vec[lo], path, bld)
    ELSE LET mid == (lo + hi) \div 2
             first == PrivateLoop(acc, vec, lo, mid, path, bld)
         IN PrivateLoop(first, vec, mid + 1, hi, path, bld)

derive_private(self, path, bld) ==
    IF self.depth = 255 THEN Err("MaximumChildDepthReached")
    ELSE LET vec == to_vec(path)
         IN IF ~vec.ok THEN vec
            ELSE PrivateLoop(Ok(self), vec.val, 1, Len(vec.val), path, bld)

\* BitcoinExtendedPublicKey::from_extended_private_key
to_extended_public_key(extended_private_key) ==
    [format |-> extended_private_key.format,
     depth |-> extended_private_key.depth,
     parent_fingerprint |-> extended_private_key.parent_fingerprint,
     child_index |-> extended_private_key.child_index,
     chain_code |-> extended_private_key.chain_code,
     public_key |-> PublicFromSecret(extended_private_key.private_key)]

\* PublicStep without the rejection of hardened indices
PublicStep_AcceptsHardened(self, extended_public_key, index, bld) ==
    LET public_key_serialized == serialize_compressed(self.public_key)
        hmac == HmacSha512(chain_code_bytes(self.chain_code),
                           public_key_serialized \o ChildIndexToBE(index))
        public_key == PublicTweakAdd(self.public_key, hmac.left)
        depth == DepthPlusOne(extended_public_key.depth, bld)
    IN IF ~ValidScalar(hmac.left) THEN Err("secp256k1")
       ELSE IF ~public_key.ok THEN public_key
       ELSE IF ~depth.ok THEN depth
       ELSE Ok([format |-> extended_public_key.format,
                depth |-> depth.val,
                parent_fingerprint |-> Slice(hash160(public_key_serialized), 0, 4),
                child_index |-> index,
                chain_code |-> hmac.right,
                public_key |-> public_key.val])

\* one iteration of the loop of BitcoinExtendedPublicKey::derive: the HMAC
\* key, the serialized key and the tweaked point are read from `self`
PublicStep(self, extended_public_key, index, bld) ==
    LET public_key_serialized == serialize_compressed(self.public_key)
        hmac == HmacSha512(chain_code_bytes(self.chain_code),
                           public_key_serialized \o ChildIndexToBE(index))
        public_key == PublicTweakAdd(self.public_key, hmac.left)
        depth == DepthPlusOne(extended_public_key.depth, bld)
    IN IF is_hardened(index) THEN Err("InvalidChildNumber")
       ELSE IF ~ValidScalar(hmac.left) THEN Err("secp256k1")
       ELSE IF ~public_key.ok THEN public_key
       ELSE IF ~depth.ok THEN depth
       ELSE Ok([format |-> extended_public_key.format,
                depth |-> depth.val,
                parent_fingerprint |-> Slice(hash160(public_key_serialized), 0, 4),
                child_index |-> index,
                chain_code |-> hmac.right,
                public_key |-> public_key.val])

RECURSIVE PublicLoop(_, _, _, _, _, _)
PublicLoop(self, acc, vec, lo, hi, bld) ==
    IF lo > hi \/ ~acc.ok THEN acc
    ELSE IF lo = hi THEN PublicStep(self, acc.val, vec[lo], bld)
    ELSE LET mid == (lo + hi) \div 2
             first == PublicLoop(self, acc, vec, lo, mid, bld)
         IN PublicLoop(self, first, vec, mid + 1, hi, bld)

derive_public(self, path, bld) ==
    IF self.depth = 255 THEN Err("MaximumChildDepthReached")
    ELSE LET vec == to_vec(path)
         IN IF ~vec.ok THEN vec
            ELSE PublicLoop(self, Ok(self), vec.val, 1, Len(vec.val), bld)

(***************************************************************************)
(* Extended private key text: version tables, Display and FromStr          *)
(***************************************************************************)
\* Mainnet::to_extended_private_key_version_bytes
Mainnet_to_extended_private_key_version_bytes(format) ==
    IF format = "P2PKH" THEN Ok(<<4, 136, 173, 228>>)
    ELSE IF format = "P2SH_P2WPKH" THEN Ok(<<4, 157, 120, 120>>)
    ELSE Err("UnsupportedFormat")

\* Mainnet::from_extended_private_key_version_bytes
Mainnet_from_extended_private_key_version_bytes(prefix) ==
    IF Slice(prefix, 0, 4) \in {<<4, 136, 173, 228>>, <<4, 157, 120, 120>>}
    THEN Ok("Mainnet")
    ELSE Err("InvalidVersionBytes")

\* BitcoinFormat::from_extended_private_key_version_bytes
BitcoinFormat_from_extended_private_key_version_bytes(prefix) ==
    IF Slice(prefix, 0, 4) \in {<<4, 136, 173, 228>>, <<4, 53, 131, 148>>}
    THEN Ok("P2PKH")
    ELSE IF Slice(prefix, 0, 4) \in {<<4, 157, 124, 178>>, <<4, 74, 82, 98>>}
    THEN Ok("P2SH_P2WPKH")
    ELSE Err("InvalidVersionBytes")

\* SecretKey::parse_slice on 32 big-endian bytes
SecretParse(bytes) ==
    IF (\E i \in 1..28 : bytes[i] # 0) \/ bytes[29] >= 128 THEN Err("secp256k1")
    ELSE IF ValidScalar(FromBE(bytes)) THEN Ok(FromBE(bytes))
    ELSE Err("secp256k1")

\* the 82 bytes written by Display for BitcoinExtendedPrivateKey
ExtendedPrivateKeyBytes(version, self) ==
    LET payload == version
                   \o <<self.depth>>
                   \o self.parent_fingerprint
                   \o ChildIndexToBE(self.child_index)
                   \o chain_code_bytes(self.chain_code)
                   \o <<0>>
                   \o secret_serialize(self.private_key)
    IN payload \o Slice(checksum(payload), 0, 4)

\* Display::fmt / to_string ; an unsupported format is a formatting error
extended_private_key_to_string(self) ==
    LET version == Mainnet_to_extended_private_key_version_bytes(self.format)
    IN IF ~version.ok THEN Err("fmt")
       ELSE Ok(to_base58(ExtendedPrivateKeyBytes(version.val, self)))

\* chain_code.copy_from_slice(&data[13..45]) : back to the abstract value
chain_code_from_bytes(bytes) == FromBE(bytes)

\* from_str without the comparison of the checksum
extended_private_key_from_str_NoChecksum(s) ==
    LET decoded == from_base58(s)
    IN IF ~decoded.ok THEN decoded
       ELSE LET data == decoded.val
            IN IF Len(data) # 82 THEN Err("InvalidByteLength")
               ELSE LET network == Mainnet_from_extended_private_key_version_bytes(Slice(data, 0, 4))
                        format == BitcoinFormat_from_extended_private_key_version_bytes(Slice(data, 0, 4))
                        private_key == SecretParse(Slice(data, 46, 78))
                    IN IF ~network.ok THEN network
                       ELSE IF ~format.ok THEN format
                       ELSE IF ~private_key.ok THEN private_key
                       ELSE Ok([format |-> format.val,
                                depth |-> data[5],
                                parent_fingerprint |-> Slice(data, 5, 9),
                                child_index |-> ChildIndexFromBE(Slice(data, 9, 13)),
                                chain_code |-> chain_code_from_bytes(Slice(data, 13, 45)),
                                private_key |-> private_key.val])

\* FromStr::from_str for BitcoinExtendedPrivateKey<Mainnet>
extended_private_key_from_str(s) ==
    LET decoded == from_base58(s)
    IN IF ~decoded.ok THEN decoded
       ELSE LET data == decoded.val
            IN IF Len(data) # 82 THEN Err("InvalidByteLength")
               ELSE LET network == Mainnet_from_extended_private_key_version_bytes(Slice(data, 0, 4))
                        format == BitcoinFormat_from_extended_private_key_version_bytes(Slice(data, 0, 4))
                        private_key == SecretParse(Slice(data, 46, 78))
                        expected == Slice(data, 78, 82)
                    IN IF ~network.ok THEN network
                       ELSE IF ~format.ok THEN format
                       ELSE IF ~private_key.ok THEN private_key
                       ELSE IF expected # Slice(checksum(Slice(data, 0, 78)), 0, 4)
                       THEN Err("InvalidChecksum")
                       ELSE Ok([format |-> format.val,
                                depth |-> data[5],
                                parent_fingerprint |-> Slice(data, 5, 9),
                                child_index |-> ChildIndexFromBE(Slice(data, 9, 13)),
                                chain_code |-> chain_code_from_bytes(Slice(data, 13, 45)),
                                private_key |-> private_key.val])

(***************************************************************************)
(* The key tree as a state machine: the wallet holds one extended private  *)
(* key (xprv) and records the last call (call).                            *)
(***************************************************************************)
NoKey == [format |-> "none"]

NoAddress == [format |-> "none"]

NoTransaction == [version |-> "none"]

Idle == [op |-> "idle"]

\* bounds of the explored inputs
MaxSeed == 5

MaxPathLen == 2

MaxIndex == 1

MaxWalk == 1

LongPathLen == 253

Seeds == {<<b>> : b \in 0..MaxSeed}

MasterFormats == {"P2PKH", "P2SH_P2WPKH", "Bech32"}

Indices == {Normal(n) : n \in 0..MaxIndex} \cup {Hardened(0)}

RECURSIVE SeqsUpTo(_, _)
SeqsUpTo(S, n) ==
    IF n = 0 THEN {<<>>}
    ELSE LET shorter == SeqsUpTo(S, n - 1)
         IN shorter \cup {Append(q, x) : q \in {r \in shorter : Len(r) = n - 1}, x \in S}

\* the last path takes a Hardened index behind two Normal ones: from depth
\* 254 the second Normal step is taken at depth 255
Paths ==
    {BIP32(q) : q \in SeqsUpTo(Indices, MaxPathLen)}
    \cup {BIP32(Repeat(Normal(0), n)) : n \in {LongPathLen, 256}}
    \cup {BIP32(<<Normal(0), Normal(0), Hardened(0)>>)}
    \cup {BIP44(<<Hardened(0), Normal(0), Normal(0)>>),
          BIP49(<<Hardened(0), Normal(0), Normal(1)>>),
          BIP49(<<Normal(0), Normal(0), Normal(0)>>)}

\* the wallet goes on with a derived key near either end of the depth range
Adopt(child) == child.depth <= MaxWalk \/ child.depth >= LongPathLen

Init ==
    /\ build \in {"debug", "release"}
    /\ xprv = NoKey
    /\ address = NoAddress
    /\ tx = NoTransaction
    /\ call = Idle

\* operations are called one at a time: a call is made when the previous
\* result has been taken (Return)
NewMaster(seed, format) ==
    LET r == new_master(seed, format)
    IN /\ call = Idle
       /\ call' = [op |-> "new_master", res |-> r]
       /\ xprv' = IF r.ok THEN r.val ELSE xprv
       /\ UNCHANGED <<build, address, tx>>

DerivePrivate(path) ==
    /\ call = Idle
    /\ xprv # NoKey
    /\ LET r == derive_private(xprv, path, build)
       IN /\ call' = [op |-> "derive_private", self |-> xprv, path |-> path, res |-> r]
          /\ xprv' = IF r.ok /\ Adopt(r.val) THEN r.val ELSE xprv
    /\ UNCHANGED <<build, address, tx>>

DerivePublic(path) ==
    /\ call = Idle
    /\ xprv # NoKey
    /\ call' = [op |-> "derive_public", self |-> to_extended_public_key(xprv), path |-> path,
                res |-> derive_public(to_extended_public_key(xprv), path, build)]
    /\ UNCHANGED <<build, xprv, address, tx>>

\* x.to_string().parse() of the held key
RenderParse ==
    /\ call = Idle
    /\ xprv # NoKey
    /\ LET text == extended_private_key_to_string(xprv)
       IN call' = [op |-> "render_parse", self |-> xprv, text |-> text,
                   res |-> IF text.ok THEN extended_private_key_from_str(text.val) ELSE text]
    /\ UNCHANGED <<build, xprv, address, tx>>

Return ==
    /\ call # Idle
    /\ call' = Idle
    /\ UNCHANGED <<build, xprv, address, tx>>

Next ==
    \/ Return
    \/ \E seed \in Seeds, format \in MasterFormats : NewMaster(seed, format)
    \/ \E path \in Paths : DerivePrivate(path)
    \/ \E path \in Paths : DerivePublic(path)
    \/ RenderParse

Spec == Init /\ [][Next]_vars

(***************************************************************************)
(* Parsing extended private key texts: the inputs are the 82 bytes of a    *)
(* key with a chosen version, depth, scalar and checksum, and texts of     *)
(* other lengths.                                                          *)
(***************************************************************************)
KeyVersions ==
    {<<4, 136, 173, 228>>, <<4, 157, 120, 120>>, <<4, 157, 124, 178>>,
     <<4, 53, 131, 148>>, <<0, 0, 0, 0>>}

\* a field record that Display would write; the scalar need not be valid
KeyFields(depth, index, cc, k) ==
    [depth |-> depth, parent_fingerprint |-> <<1, 2, 3, 4>>, child_index |-> index,
     chain_code |-> cc, private_key |-> k]

\* the last byte changed
Corrupt(bytes) == [bytes EXCEPT ![Len(bytes)] = (@ + 1) % 256]

KeyData ==
    LET good == {ExtendedPrivateKeyBytes(v, KeyFields(d, i, cc, k)) :
                    v \in KeyVersions, d \in {0, 255}, i \in {Normal(1), Hardened(0)},
                    cc \in {ChainSpace - 1}, k \in {0, 1, CurveOrder - 1, CurveOrder}}
        some == {ExtendedPrivateKeyBytes(v, KeyFields(1, Normal(0), 1, k)) :
                    v \in KeyVersions, k \in {0, 1}}
    IN good \cup {Corrupt(b) : b \in good}
            \cup {Slice(b, 0, 81) : b \in some}
            \cup {b \o <<0>> : b \in some}
            \cup {Slice(b, 0, 78) : b \in some}

\* '0' is not in the Base58 alphabet
KeyTexts == {to_base58(b) : b \in KeyData} \cup {<<48, 49, 50>>}

\* no operation of this specification depends on the build profile
InitParse ==
    /\ build = "release"
    /\ xprv = NoKey
    /\ address = NoAddress
    /\ tx = NoTransaction
    /\ call = Idle

FromStrKey(text) ==
    /\ call = Idle
    /\ call' = [op |-> "from_str", text |-> text, res |-> extended_private_key_from_str(text)]
    /\ UNCHANGED <<build, xprv, address, tx>>

NextParse ==
    \/ Return
    \/ \E text \in KeyTexts : FromStrKey(text)

SpecParse == InitParse /\ [][NextParse]_vars

(***************************************************************************)
(* WitnessProgram                                                          *)
(***************************************************************************)
\* validate with the version checked before the program length
validate_VersionFirst(self) ==
    IF self.version > 16 THEN Err("InvalidVersion")
    ELSE IF Len(self.program) < 2 \/ Len(self.program) > 40
    THEN Err("InvalidProgramLength")
    ELSE IF self.version = 0 /\ ~(Len(self.program) = 20 \/ Len(self.program) = 32)
    THEN Err("InvalidProgramLengthForVersion")
    ELSE Ok("valid")

\* WitnessProgram::validate
validate(self) ==
    IF Len(self.program) < 2 \/ Len(self.program) > 40
    THEN Err("InvalidProgramLength")
    ELSE IF self.version > 16 THEN Err("InvalidVersion")
    ELSE IF self.version = 0 /\ ~(Len(self.program) = 20 \/ Len(self.program) = 32)
    THEN Err("InvalidProgramLengthForVersion")
    ELSE Ok("valid")

\* WitnessProgram::new
WitnessProgram_new(program) ==
    IF Len(program) < 2 THEN Err("InvalidProgramLength")
    ELSE LET data_size == program[2]
             data == Slice(program, 2, Len(program))
             self == [version |-> program[1], program |-> data]
         IN IF data_size # Len(data) THEN Err("MismatchedProgramLength")
            ELSE IF validate(self).ok THEN Ok(self) ELSE validate(self)

\* WitnessProgram::to_scriptpubkey.  The sum self.version + 0x50 of two u8
\* overflows for a version of 176 and more: the debug build panics and the
\* release build wraps.  validate refuses such a version; a struct built
\* field by field holds any.
to_scriptpubkey(self, bld) ==
    IF self.version > 0 /\ self.version + 80 > 255 /\ bld = "debug" THEN Panic
    ELSE Ok(<<IF self.version > 0 THEN (self.version + 80) % 256 ELSE self.version,
              Len(self.program) % 256>> \o self.program)

\* inputs: a version byte, a declared length and a program of n bytes
MaxProgramLen == 41

WitnessVersions == {0, 1, 16, 17, 255}

\* structs built field by field: the versions around the overflow of the
\* encoded version, and programs of every length
WitnessPrograms ==
    {[version |-> v, program |-> Repeat(7, n)] :
        v \in WitnessVersions \cup {175, 176}, n \in 0..MaxProgramLen}

WitnessInputs ==
    {<<>>} \cup {<<v>> : v \in WitnessVersions}
    \cup {<<v, size>> \o Repeat(7, n) :
            v \in WitnessVersions,
            n \in 0..MaxProgramLen,
            size \in {0, 2, 20}}
    \cup {<<v, n>> \o Repeat(7, n) : v \in WitnessVersions, n \in 0..MaxProgramLen}

InitWitness ==
    /\ build \in {"debug", "release"}
    /\ xprv = NoKey
    /\ address = NoAddress
    /\ tx = NoTransaction
    /\ call = Idle

NewWitnessProgram(bytes) ==
    /\ call = Idle
    /\ call' = [op |-> "witness_program_new", bytes |-> bytes, res |-> WitnessProgram_new(bytes)]
    /\ UNCHANGED <<build, xprv, address, tx>>

\* WitnessProgram { version, program }.to_scriptpubkey()
ToScriptPubKey(self) ==
    /\ call = Idle
    /\ call' = [op |-> "to_scriptpubkey", self |-> self, res |-> to_scriptpubkey(self, build)]
    /\ UNCHANGED <<build, xprv, address, tx>>

NextWitness ==
    \/ Return
    \/ \E bytes \in WitnessInputs : NewWitnessProgram(bytes)
    \/ \E self \in WitnessPrograms : ToScriptPubKey(self)

SpecWitness == InitWitness /\ [][NextWitness]_vars

(***************************************************************************)
(* Variable-length integers of the transaction codec.  A u64 is a tuple    *)
(* of four 16-bit limbs, most significant first.                           *)
(***************************************************************************)
U64(l3, l2, l1, l0) == <<l3, l2, l1, l0>>

\* little-endian bytes of the low 16 and the low 32 bits
LE16(value) == <<value[4] % 256, value[4] \div 256>>

LE32(value) == LE16(value) \o <<value[3] % 256, value[3] \div 256>>

\* a + b + c modulo 2^64, c a small carry
wrapping_add(a, b, c) ==
    LET s4 == a[4] + b[4] + c
        s3 == a[3] + b[3] + s4 \div 65536
        s2 == a[2] + b[2] + s3 \div 65536
        s1 == a[1] + b[1] + s2 \div 65536
    IN U64(s1 % 65536, s2 % 65536, s3 % 65536, s4 % 65536)

\* !a
BitNot(a) == [i \in 1..4 |-> 65535 - a[i]]

\* value <= 252, value <= 65535, value <= 4292967295 (0xFFE1_7B7F)
AtMost252(value) == value[1] = 0 /\ value[2] = 0 /\ value[3] = 0 /\ value[4] <= 252

AtMost65535(value) == value[1] = 0 /\ value[2] = 0 /\ value[3] = 0

AtMost4292967295(value) ==
    /\ value[1] = 0
    /\ value[2] = 0
    /\ (value[3] < 65505 \/ (value[3] = 65505 /\ value[4] <= 31615))

variable_length_integer(value) ==
    IF AtMost252(value) THEN Ok(<<value[4]>>)
    ELSE IF AtMost65535(value) THEN Ok(<<253>> \o LE16(value))
    ELSE IF AtMost4292967295(value) THEN Ok(<<254>> \o LE32(value))
    ELSE Ok(<<255>> \o LE32(value))

\* Read::read for &[u8] into a zeroed buffer of n bytes: a short read
\* leaves the rest of the buffer zero and is not an error
ReadBuf(reader, n) ==
    [i \in 1..n |-> IF i <= Len(reader) THEN reader[i] ELSE 0]

ReadRest(reader, n) ==
    IF n >= Len(reader) THEN <<>> ELSE Slice(reader, n, Len(reader))

\* from_le_bytes of a buffer of up to 8 bytes, as limbs
FromLE(buf) ==
    LET B(i) == IF i <= Len(buf) THEN buf[i] ELSE 0
    IN U64(B(7) + 256 * B(8), B(5) + 256 * B(6), B(3) + 256 * B(4), B(1) + 256 * B(2))

\* the value read (usize is 64 bits wide) and the bytes left in the reader
read_variable_length_integer(reader) ==
    With(ReadRest(reader, 1), LAMBDA after :
        LET flag == ReadBuf(reader, 1)
        IN IF flag[1] <= 252
           THEN [ok |-> TRUE, val |-> U64(0, 0, 0, flag[1]), rest |-> after]
           ELSE IF flag[1] = 253
           THEN With(FromLE(ReadBuf(after, 2)), LAMBDA s :
                    IF s[4] < 253 THEN Err("InvalidVariableSizeInteger")
                    ELSE [ok |-> TRUE, val |-> s, rest |-> ReadRest(after, 2)])
           ELSE IF flag[1] = 254
           THEN With(FromLE(ReadBuf(after, 4)), LAMBDA s :
                    IF s[3] = 0 THEN Err("InvalidVariableSizeInteger")
                    ELSE [ok |-> TRUE, val |-> s, rest |-> ReadRest(after, 4)])
           ELSE With(FromLE(ReadBuf(after, 8)), LAMBDA s :
                    IF s[1] = 0 /\ s[2] = 0 THEN Err("InvalidVariableSizeInteger")
                    ELSE [ok |-> TRUE, val |-> s, rest |-> ReadRest(after, 8)]))

\* inputs around the thresholds of the encoder and the decoder
Limb3 == {0, 1, 65535}

Limb1 == {0, 1, 65505, 65535}

Limb0 == {0, 252, 253, 31615, 31616, 65535}

VarintValues == {U64(a, b, c, d) : a \in Limb3, b \in Limb3, c \in Limb1, d \in Limb0}

\* bytes that follow the integer in the reader
Trailers == {<<>>, <<1, 2, 3, 4, 5>>}

\* no operation of this specification depends on the build profile
InitVarint ==
    /\ build = "release"
    /\ xprv = NoKey
    /\ address = NoAddress
    /\ tx = NoTransaction
    /\ call = Idle

\* read_variable_length_integer(&variable_length_integer(value)? ++ trailer)
WriteReadVarint(value, trailer) ==
    /\ call = Idle
    /\ LET bytes == variable_length_integer(value).val
       IN call' = [op |-> "write_read_varint", value |-> value, bytes |-> bytes,
                   trailer |-> trailer,
                   res |-> read_variable_length_integer(bytes \o trailer)]
    /\ UNCHANGED <<build, xprv, address, tx>>

\* readers handed to read_variable_length_integer: every prefix of a
\* marker followed by the eight bytes of the widest size buffer
MaxPayload == 8

Markers == {0, 252, 253, 254, 255}

Payloads ==
    {<<0, 0, 0, 0, 0, 0, 0, 0>>, <<252, 0, 0, 0, 0, 0, 0, 0>>,
     <<253, 0, 0, 0, 0, 0, 0, 0>>, <<0, 1, 0, 0, 0, 0, 0, 0>>,
     <<255, 255, 0, 0, 0, 0, 0, 0>>, <<0, 0, 1, 0, 0, 0, 0, 0>>,
     <<255, 255, 255, 255, 0, 0, 0, 0>>, <<0, 0, 0, 0, 1, 0, 0, 0>>,
     <<1, 0, 0, 0, 0, 0, 0, 255>>}

VarintReaders ==
    {<<>>} \cup {<<m>> \o Slice(p, 0, n) : m \in Markers, p \in Payloads, n \in 0..MaxPayload}

\* read_variable_length_integer(&reader[..])
ReadVarint(reader) ==
    /\ call = Idle
    /\ call' = [op |-> "read_varint", reader |-> reader,
                res |-> read_variable_length_integer(reader)]
    /\ UNCHANGED <<build, xprv, address, tx>>

NextVarint ==
    \/ Return
    \/ \E value \in VarintValues, trailer \in Trailers : WriteReadVarint(value, trailer)
    \/ \E reader \in VarintReaders : ReadVarint(reader)

SpecVarint == InitVarint /\ [][NextVarint]_vars

(***************************************************************************)
(* Bech32 (crate bech32): u5 data, base32 regrouping, text                 *)
(***************************************************************************)
\* "qpzry9x8gf2tvdw0s3jn54khce6mua7l"
Bech32Charset ==
    <<113, 112, 122, 114, 121, 57, 120, 56, 103, 102, 50, 116, 118, 100, 119, 48,
      115, 51, 106, 110, 53, 52, 107, 104, 99, 101, 54, 109, 117, 97, 55, 108>>

Pow2 == <<1, 2, 4, 8, 16, 32, 64, 128>>

\* bit k (0-based, most significant first) of a sequence of units of
\* `width` bits; bits past the end are zero
BitAt(units, width, k) ==
    IF k >= width * Len(units) THEN 0
    ELSE (units[(k \div width) + 1] \div Pow2[width - (k % width)]) % 2

\* the number made of the `width` bits from bit k
BitsFrom(units, from_width, k, width) ==
    LET b(j) == BitAt(units, from_width, k + j) * Pow2[width - j]
    IN IF width = 5 THEN b(0) + b(1) + b(2) + b(3) + b(4)
       ELSE b(0) + b(1) + b(2) + b(3) + b(4) + b(5) + b(6) + b(7)

\* ToBase32::to_base32 : 8-bit to 5-bit groups, zero padded
to_base32(bytes) ==
    [g \in 1..((8 * Len(bytes) + 4) \div 5) |-> BitsFrom(bytes, 8, 5 * (g - 1), 5)]

\* FromBase32::from_base32 : 5-bit to 8-bit groups; the padding must be
\* shorter than 5 bits and zero
from_base32(data) ==
    LET n == (5 * Len(data)) \div 8
        left == (5 * Len(data)) % 8
    IN IF left >= 5 \/ \E k \in (8 * n)..(5 * Len(data) - 1) : BitAt(data, 5, k) # 0
       THEN Err("bech32")
       ELSE Ok([i \in 1..n |-> BitsFrom(data, 5, 8 * (i - 1), 8)])

\* u5::try_from_u8
u5_try_from_u8(v) == IF v > 31 THEN Err("bech32") ELSE Ok(v)

(***************************************************************************)
(* Texts are Rust strings: the tuple of the bytes of their UTF-8 encoding. *)
(* str::to_lowercase follows the Unicode tables of the standard library    *)
(* (given here for Unicode 17.0), and a slice of a string panics when it   *)
(* does not begin and end between characters.                              *)
(***************************************************************************)
\* core::unicode::conversions::to_lower as runs <<first, last, step, offset>>:
\* the code points first, first + step, ..., last have the lower case
\* code point + offset
LowercaseRuns ==
    {<<65, 90, 1, 32>>, <<192, 214, 1, 32>>, <<216, 222, 1, 32>>,
     <<256, 302, 2, 1>>, <<306, 310, 2, 1>>, <<313, 327, 2, 1>>,
     <<330, 374, 2, 1>>, <<376, 376, 1, -121>>, <<377, 381, 2, 1>>,
     <<385, 385, 1, 210>>, <<386, 388, 2, 1>>, <<390, 390, 1, 206>>,
     <<391, 391, 1, 1>>, <<393, 394, 1, 205>>, <<395, 395, 1, 1>>,
     <<398, 398, 1, 79>>, <<399, 399, 1, 202>>, <<400, 400, 1, 203>>,
     <<401, 401, 1, 1>>, <<403, 403, 1, 205>>, <<404, 404, 1, 207>>,
     <<406, 406, 1, 211>>, <<407, 407, 1, 209>>, <<408, 408, 1, 1>>,
     <<412, 412, 1, 211>>, <<413, 413, 1, 213>>, <<415, 415, 1, 214>>,
     <<416, 420, 2, 1>>, <<422, 422, 1, 218>>, <<423, 423, 1, 1>>,
     <<425, 425, 1, 218>>, <<428, 428, 1, 1>>, <<430, 430, 1, 218>>,
     <<431, 431, 1, 1>>, <<433, 434, 1, 217>>, <<435, 437, 2, 1>>,
     <<439, 439, 1, 219>>, <<440, 440, 1, 1>>, <<444, 444, 1, 1>>,
     <<452, 452, 1, 2>>, <<453, 453, 1, 1>>, <<455, 455, 1, 2>>,
     <<456, 456, 1, 1>>, <<458, 458, 1, 2>>, <<459, 475, 2, 1>>,
     <<478, 494, 2, 1>>, <<497, 497, 1, 2>>, <<498, 500, 2, 1>>,
     <<502, 502, 1, -97>>, <<503, 503, 1, -56>>, <<504, 542, 2, 1>>,
     <<544, 544, 1, -130>>, <<546, 562, 2, 1>>, <<570, 570, 1, 10795>>,
     <<571, 571, 1, 1>>, <<573, 573, 1, -163>>, <<574, 574, 1, 10792>>,
     <<577, 577, 1, 1>>, <<579, 579, 1, -195>>, <<580, 580, 1, 69>>,
     <<581, 581, 1, 71>>, <<582, 590, 2, 1>>, <<880, 882, 2, 1>>,
     <<886, 886, 1, 1>>, <<895, 895, 1, 116>>, <<902, 902, 1, 38>>,
     <<904, 906, 1, 37>>, <<908, 908, 1, 64>>, <<910, 911, 1, 63>>,
     <<913, 929, 1, 32>>, <<931, 939, 1, 32>>, <<975, 975, 1, 8>>,
     <<984, 1006, 2, 1>>, <<1012, 1012, 1, -60>>, <<1015, 1015, 1, 1>>,
     <<1017, 1017, 1, -7>>, <<1018, 1018, 1, 1>>, <<1021, 1023, 1, -130>>,
     <<1024, 1039, 1, 80>>, <<1040, 1071, 1, 32>>, <<1120, 1152, 2, 1>>,
     <<1162, 1214, 2, 1>>, <<1216, 1216, 1, 15>>, <<1217, 1229, 2, 1>>,
     <<1232, 1326, 2, 1>>, <<1329, 1366, 1, 48>>, <<4256, 4293, 1, 7264>>,
     <<4295, 4295, 1, 7264>>, <<4301, 4301, 1, 7264>>,
     <<5024, 5103, 1, 38864>>, <<5104, 5109, 1, 8>>, <<7305, 7305, 1, 1>>,
     <<7312, 7354, 1, -3008>>, <<7357, 7359, 1, -3008>>,
     <<7680, 7828, 2, 1>>, <<7838, 7838, 1, -7615>>, <<7840, 7934, 2, 1>>,
     <<7944, 7951, 1, -8>>, <<7960, 7965, 1, -8>>, <<7976, 7983, 1, -8>>,
     <<7992, 7999, 1, -8>>, <<8008, 8013, 1, -8>>, <<8025, 8031, 2, -8>>,
     <<8040, 8047, 1, -8>>, <<8072, 8079, 1, -8>>, <<8088, 8095, 1, -8>>,
     <<8104, 8111, 1, -8>>, <<8120, 8121, 1, -8>>, <<8122, 8123, 1, -74>>,
     <<8124, 8124, 1, -9>>, <<8136, 8139, 1, -86>>, <<8140, 8140, 1, -9>>,
     <<8152, 8153, 1, -8>>, <<8154, 8155, 1, -100>>, <<8168, 8169, 1, -8>>,
     <<8170, 8171, 1, -112>>, <<8172, 8172, 1, -7>>,
     <<8184, 8185, 1, -128>>, <<8186, 8187, 1, -126>>,
     <<8188, 8188, 1, -9>>, <<8486, 8486, 1, -7517>>,
     <<8490, 8490, 1, -8383>>, <<8491, 8491, 1, -8262>>,
     <<8498, 8498, 1, 28>>, <<8544, 8559, 1, 16>>, <<8579, 8579, 1, 1>>,
     <<9398, 9423, 1, 26>>, <<11264, 11311, 1, 48>>,
     <<11360, 11360, 1, 1>>, <<11362, 11362, 1, -10743>>,
     <<11363, 11363, 1, -3814>>, <<11364, 11364, 1, -10727>>,
     <<11367, 11371, 2, 1>>, <<11373, 11373, 1, -10780>>,
     <<11374, 11374, 1, -10749>>, <<11375, 11375, 1, -10783>>,
     <<11376, 11376, 1, -10782>>, <<11378, 11378, 1, 1>>,
     <<11381, 11381, 1, 1>>, <<11390, 11391, 1, -10815>>,
     <<11392, 11490, 2, 1>>, <<11499, 11501, 2, 1>>,
     <<11506, 11506, 1, 1>>, <<42560, 42604, 2, 1>>,
     <<42624, 42650, 2, 1>>, <<42786, 42798, 2, 1>>,
     <<42802, 42862, 2, 1>>, <<42873, 42875, 2, 1>>,
     <<42877, 42877, 1, -35332>>, <<42878, 42886, 2, 1>>,
     <<42891, 42891, 1, 1>>, <<42893, 42893, 1, -42280>>,
     <<42896, 42898, 2, 1>>, <<42902, 42920, 2, 1>>,
     <<42922, 42922, 1, -42308>>, <<42923, 42923, 1, -42319>>,
     <<42924, 42924, 1, -42315>>, <<42925, 42925, 1, -42305>>,
     <<42926, 42926, 1, -42308>>, <<42928, 42928, 1, -42258>>,
     <<42929, 42929, 1, -42282>>, <<42930, 42930, 1, -42261>>,
     <<42931, 42931, 1, 928>>, <<42932, 42946, 2, 1>>,
     <<42948, 42948, 1, -48>>, <<42949, 42949, 1, -42307>>,
     <<42950, 42950, 1, -35384>>, <<42951, 42953, 2, 1>>,
     <<42955, 42955, 1, -42343>>, <<42956, 42970, 2, 1>>,
     <<42972, 42972, 1, -42561>>, <<42997, 42997, 1, 1>>,
     <<65313, 65338, 1, 32>>, <<66560, 66599, 1, 40>>,
     <<66736, 66771, 1, 40>>, <<66928, 66938, 1, 39>>,
     <<66940, 66954, 1, 39>>, <<66956, 66962, 1, 39>>,
     <<66964, 66965, 1, 39>>, <<68736, 68786, 1, 64>>,
     <<68944, 68965, 1, 32>>, <<71840, 71871, 1, 32>>,
     <<93760, 93791, 1, 32>>, <<93856, 93880, 1, 27>>,
     <<125184, 125217, 1, 34>>}

\* the code points with the property Cased that are not Case_Ignorable,
\* as ranges <<first, last>>
CasedRanges ==
    {<<65, 90>>, <<97, 122>>, <<170, 170>>, <<181, 181>>, <<186, 186>>,
     <<192, 214>>, <<216, 246>>, <<248, 442>>, <<444, 447>>, <<452, 659>>,
     <<662, 687>>, <<880, 883>>, <<886, 887>>, <<891, 893>>, <<895, 895>>,
     <<902, 902>>, <<904, 906>>, <<908, 908>>, <<910, 929>>, <<931, 1013>>,
     <<1015, 1153>>, <<1162, 1327>>, <<1329, 1366>>, <<1376, 1416>>,
     <<4256, 4293>>, <<4295, 4295>>, <<4301, 4301>>, <<4304, 4346>>,
     <<4349, 4351>>, <<5024, 5109>>, <<5112, 5117>>, <<7296, 7306>>,
     <<7312, 7354>>, <<7357, 7359>>, <<7424, 7467>>, <<7531, 7543>>,
     <<7545, 7578>>, <<7680, 7957>>, <<7960, 7965>>, <<7968, 8005>>,
     <<8008, 8013>>, <<8016, 8023>>, <<8025, 8025>>, <<8027, 8027>>,
     <<8029, 8029>>, <<8031, 8061>>, <<8064, 8116>>, <<8118, 8124>>,
     <<8126, 8126>>, <<8130, 8132>>, <<8134, 8140>>, <<8144, 8147>>,
     <<8150, 8155>>, <<8160, 8172>>, <<8178, 8180>>, <<8182, 8188>>,
     <<8450, 8450>>, <<8455, 8455>>, <<8458, 8467>>, <<8469, 8469>>,
     <<8473, 8477>>, <<8484, 8484>>, <<8486, 8486>>, <<8488, 8488>>,
     <<8490, 8493>>, <<8495, 8500>>, <<8505, 8505>>, <<8508, 8511>>,
     <<8517, 8521>>, <<8526, 8526>>, <<8544, 8575>>, <<8579, 8580>>,
     <<9398, 9449>>, <<11264, 11387>>, <<11390, 11492>>, <<11499, 11502>>,
     <<11506, 11507>>, <<11520, 11557>>, <<11559, 11559>>,
     <<11565, 11565>>, <<42560, 42605>>, <<42624, 42651>>,
     <<42786, 42863>>, <<42865, 42887>>, <<42891, 42894>>,
     <<42896, 42972>>, <<42997, 42998>>, <<43002, 43002>>,
     <<43824, 43866>>, <<43872, 43880>>, <<43888, 43967>>,
     <<64256, 64262>>, <<64275, 64279>>, <<65313, 65338>>,
     <<65345, 65370>>, <<66560, 66639>>, <<66736, 66771>>,
     <<66776, 66811>>, <<66928, 66938>>, <<66940, 66954>>,
     <<66956, 66962>>, <<66964, 66965>>, <<66967, 66977>>,
     <<66979, 66993>>, <<66995, 67001>>, <<67003, 67004>>,
     <<68736, 68786>>, <<68800, 68850>>, <<68944, 68965>>,
     <<68976, 68997>>, <<71840, 71903>>, <<93760, 93823>>,
     <<93856, 93880>>, <<93883, 93907>>, <<119808, 119892>>,
     <<119894, 119964>>, <<119966, 119967>>, <<119970, 119970>>,
     <<119973, 119974>>, <<119977, 119980>>, <<119982, 119993>>,
     <<119995, 119995>>, <<119997, 120003>>, <<120005, 120069>>,
     <<120071, 120074>>, <<120077, 120084>>, <<120086, 120092>>,
     <<120094, 120121>>, <<120123, 120126>>, <<120128, 120132>>,
     <<120134, 120134>>, <<120138, 120144>>, <<120146, 120485>>,
     <<120488, 120512>>, <<120514, 120538>>, <<120540, 120570>>,
     <<120572, 120596>>, <<120598, 120628>>, <<120630, 120654>>,
     <<120656, 120686>>, <<120688, 120712>>, <<120714, 120744>>,
     <<120746, 120770>>, <<120772, 120779>>, <<122624, 122633>>,
     <<122635, 122654>>, <<122661, 122666>>, <<125184, 125251>>,
     <<127280, 127305>>, <<127312, 127337>>, <<127344, 127369>>}

\* the code points with the property Case_Ignorable, as ranges
CaseIgnorableRanges ==
    {<<39, 39>>, <<46, 46>>, <<58, 58>>, <<94, 94>>, <<96, 96>>,
     <<168, 168>>, <<173, 173>>, <<175, 175>>, <<180, 180>>, <<183, 184>>,
     <<688, 879>>, <<884, 885>>, <<890, 890>>, <<900, 901>>, <<903, 903>>,
     <<1155, 1161>>, <<1369, 1369>>, <<1375, 1375>>, <<1425, 1469>>,
     <<1471, 1471>>, <<1473, 1474>>, <<1476, 1477>>, <<1479, 1479>>,
     <<1524, 1524>>, <<1536, 1541>>, <<1552, 1562>>, <<1564, 1564>>,
     <<1600, 1600>>, <<1611, 1631>>, <<1648, 1648>>, <<1750, 1757>>,
     <<1759, 1768>>, <<1770, 1773>>, <<1807, 1807>>, <<1809, 1809>>,
     <<1840, 1866>>, <<1958, 1968>>, <<2027, 2037>>, <<2042, 2042>>,
     <<2045, 2045>>, <<2070, 2093>>, <<2137, 2139>>, <<2184, 2184>>,
     <<2192, 2193>>, <<2199, 2207>>, <<2249, 2306>>, <<2362, 2362>>,
     <<2364, 2364>>, <<2369, 2376>>, <<2381, 2381>>, <<2385, 2391>>,
     <<2402, 2403>>, <<2417, 2417>>, <<2433, 2433>>, <<2492, 2492>>,
     <<2497, 2500>>, <<2509, 2509>>, <<2530, 2531>>, <<2558, 2558>>,
     <<2561, 2562>>, <<2620, 2620>>, <<2625, 2626>>, <<2631, 2632>>,
     <<2635, 2637>>, <<2641, 2641>>, <<2672, 2673>>, <<2677, 2677>>,
     <<2689, 2690>>, <<2748, 2748>>, <<2753, 2757>>, <<2759, 2760>>,
     <<2765, 2765>>, <<2786, 2787>>, <<2810, 2815>>, <<2817, 2817>>,
     <<2876, 2876>>, <<2879, 2879>>, <<2881, 2884>>, <<2893, 2893>>,
     <<2901, 2902>>, <<2914, 2915>>, <<2946, 2946>>, <<3008, 3008>>,
     <<3021, 3021>>, <<3072, 3072>>, <<3076, 3076>>, <<3132, 3132>>,
     <<3134, 3136>>, <<3142, 3144>>, <<3146, 3149>>, <<3157, 3158>>,
     <<3170, 3171>>, <<3201, 3201>>, <<3260, 3260>>, <<3263, 3263>>,
     <<3270, 3270>>, <<3276, 3277>>, <<3298, 3299>>, <<3328, 3329>>,
     <<3387, 3388>>, <<3393, 3396>>, <<3405, 3405>>, <<3426, 3427>>,
     <<3457, 3457>>, <<3530, 3530>>, <<3538, 3540>>, <<3542, 3542>>,
     <<3633, 3633>>, <<3636, 3642>>, <<3654, 3662>>, <<3761, 3761>>,
     <<3764, 3772>>, <<3782, 3782>>, <<3784, 3790>>, <<3864, 3865>>,
     <<3893, 3893>>, <<3895, 3895>>, <<3897, 3897>>, <<3953, 3966>>,
     <<3968, 3972>>, <<3974, 3975>>, <<3981, 3991>>, <<3993, 4028>>,
     <<4038, 4038>>, <<4141, 4144>>, <<4146, 4151>>, <<4153, 4154>>,
     <<4157, 4158>>, <<4184, 4185>>, <<4190, 4192>>, <<4209, 4212>>,
     <<4226, 4226>>, <<4229, 4230>>, <<4237, 4237>>, <<4253, 4253>>,
     <<4348, 4348>>, <<4957, 4959>>, <<5906, 5908>>, <<5938, 5939>>,
     <<5970, 5971>>, <<6002, 6003>>, <<6068, 6069>>, <<6071, 6077>>,
     <<6086, 6086>>, <<6089, 6099>>, <<6103, 6103>>, <<6109, 6109>>,
     <<6155, 6159>>, <<6211, 6211>>, <<6277, 6278>>, <<6313, 6313>>,
     <<6432, 6434>>, <<6439, 6440>>, <<6450, 6450>>, <<6457, 6459>>,
     <<6679, 6680>>, <<6683, 6683>>, <<6742, 6742>>, <<6744, 6750>>,
     <<6752, 6752>>, <<6754, 6754>>, <<6757, 6764>>, <<6771, 6780>>,
     <<6783, 6783>>, <<6823, 6823>>, <<6832, 6877>>, <<6880, 6891>>,
     <<6912, 6915>>, <<6964, 6964>>, <<6966, 6970>>, <<6972, 6972>>,
     <<6978, 6978>>, <<7019, 7027>>, <<7040, 7041>>, <<7074, 7077>>,
     <<7080, 7081>>, <<7083, 7085>>, <<7142, 7142>>, <<7144, 7145>>,
     <<7149, 7149>>, <<7151, 7153>>, <<7212, 7219>>, <<7222, 7223>>,
     <<7288, 7293>>, <<7376, 7378>>, <<7380, 7392>>, <<7394, 7400>>,
     <<7405, 7405>>, <<7412, 7412>>, <<7416, 7417>>, <<7468, 7530>>,
     <<7544, 7544>>, <<7579, 7679>>, <<8125, 8125>>, <<8127, 8129>>,
     <<8141, 8143>>, <<8157, 8159>>, <<8173, 8175>>, <<8189, 8190>>,
     <<8203, 8207>>, <<8216, 8217>>, <<8228, 8228>>, <<8231, 8231>>,
     <<8234, 8238>>, <<8288, 8292>>, <<8294, 8303>>, <<8305, 8305>>,
     <<8319, 8319>>, <<8336, 8348>>, <<8400, 8432>>, <<11388, 11389>>,
     <<11503, 11505>>, <<11631, 11631>>, <<11647, 11647>>,
     <<11744, 11775>>, <<11823, 11823>>, <<12293, 12293>>,
     <<12330, 12333>>, <<12337, 12341>>, <<12347, 12347>>,
     <<12441, 12446>>, <<12540, 12542>>, <<40981, 40981>>,
     <<42232, 42237>>, <<42508, 42508>>, <<42607, 42610>>,
     <<42612, 42621>>, <<42623, 42623>>, <<42652, 42655>>,
     <<42736, 42737>>, <<42752, 42785>>, <<42864, 42864>>,
     <<42888, 42890>>, <<42993, 42996>>, <<43000, 43001>>,
     <<43010, 43010>>, <<43014, 43014>>, <<43019, 43019>>,
     <<43045, 43046>>, <<43052, 43052>>, <<43204, 43205>>,
     <<43232, 43249>>, <<43263, 43263>>, <<43302, 43309>>,
     <<43335, 43345>>, <<43392, 43394>>, <<43443, 43443>>,
     <<43446, 43449>>, <<43452, 43453>>, <<43471, 43471>>,
     <<43493, 43494>>, <<43561, 43566>>, <<43569, 43570>>,
     <<43573, 43574>>, <<43587, 43587>>, <<43596, 43596>>,
     <<43632, 43632>>, <<43644, 43644>>, <<43696, 43696>>,
     <<43698, 43700>>, <<43703, 43704>>, <<43710, 43711>>,
     <<43713, 43713>>, <<43741, 43741>>, <<43756, 43757>>,
     <<43763, 43764>>, <<43766, 43766>>, <<43867, 43871>>,
     <<43881, 43883>>, <<44005, 44005>>, <<44008, 44008>>,
     <<44013, 44013>>, <<64286, 64286>>, <<64434, 64450>>,
     <<65024, 65039>>, <<65043, 65043>>, <<65056, 65071>>,
     <<65106, 65106>>, <<65109, 65109>>, <<65279, 65279>>,
     <<65287, 65287>>, <<65294, 65294>>, <<65306, 65306>>,
     <<65342, 65342>>, <<65344, 65344>>, <<65392, 65392>>,
     <<65438, 65439>>, <<65507, 65507>>, <<65529, 65531>>,
     <<66045, 66045>>, <<66272, 66272>>, <<66422, 66426>>,
     <<67456, 67461>>, <<67463, 67504>>, <<67506, 67514>>,
     <<68097, 68099>>, <<68101, 68102>>, <<68108, 68111>>,
     <<68152, 68154>>, <<68159, 68159>>, <<68325, 68326>>,
     <<68900, 68903>>, <<68942, 68942>>, <<68969, 68973>>,
     <<68975, 68975>>, <<69291, 69292>>, <<69317, 69317>>,
     <<69370, 69375>>, <<69446, 69456>>, <<69506, 69509>>,
     <<69633, 69633>>, <<69688, 69702>>, <<69744, 69744>>,
     <<69747, 69748>>, <<69759, 69761>>, <<69811, 69814>>,
     <<69817, 69818>>, <<69821, 69821>>, <<69826, 69826>>,
     <<69837, 69837>>, <<69888, 69890>>, <<69927, 69931>>,
     <<69933, 69940>>, <<70003, 70003>>, <<70016, 70017>>,
     <<70070, 70078>>, <<70089, 70092>>, <<70095, 70095>>,
     <<70191, 70193>>, <<70196, 70196>>, <<70198, 70199>>,
     <<70206, 70206>>, <<70209, 70209>>, <<70367, 70367>>,
     <<70371, 70378>>, <<70400, 70401>>, <<70459, 70460>>,
     <<70464, 70464>>, <<70502, 70508>>, <<70512, 70516>>,
     <<70587, 70592>>, <<70606, 70606>>, <<70608, 70608>>,
     <<70610, 70610>>, <<70625, 70626>>, <<70712, 70719>>,
     <<70722, 70724>>, <<70726, 70726>>, <<70750, 70750>>,
     <<70835, 70840>>, <<70842, 70842>>, <<70847, 70848>>,
     <<70850, 70851>>, <<71090, 71093>>, <<71100, 71101>>,
     <<71103, 71104>>, <<71132, 71133>>, <<71219, 71226>>,
     <<71229, 71229>>, <<71231, 71232>>, <<71339, 71339>>,
     <<71341, 71341>>, <<71344, 71349>>, <<71351, 71351>>,
     <<71453, 71453>>, <<71455, 71455>>, <<71458, 71461>>,
     <<71463, 71467>>, <<71727, 71735>>, <<71737, 71738>>,
     <<71995, 71996>>, <<71998, 71998>>, <<72003, 72003>>,
     <<72148, 72151>>, <<72154, 72155>>, <<72160, 72160>>,
     <<72193, 72202>>, <<72243, 72248>>, <<72251, 72254>>,
     <<72263, 72263>>, <<72273, 72278>>, <<72281, 72283>>,
     <<72330, 72342>>, <<72344, 72345>>, <<72544, 72544>>,
     <<72546, 72548>>, <<72550, 72550>>, <<72752, 72758>>,
     <<72760, 72765>>, <<72767, 72767>>, <<72850, 72871>>,
     <<72874, 72880>>, <<72882, 72883>>, <<72885, 72886>>,
     <<73009, 73014>>, <<73018, 73018>>, <<73020, 73021>>,
     <<73023, 73029>>, <<73031, 73031>>, <<73104, 73105>>,
     <<73109, 73109>>, <<73111, 73111>>, <<73177, 73177>>,
     <<73459, 73460>>, <<73472, 73473>>, <<73526, 73530>>,
     <<73536, 73536>>, <<73538, 73538>>, <<73562, 73562>>,
     <<78896, 78912>>, <<78919, 78933>>, <<90398, 90409>>,
     <<90413, 90415>>, <<92912, 92916>>, <<92976, 92982>>,
     <<92992, 92995>>, <<93504, 93506>>, <<93547, 93548>>,
     <<94031, 94031>>, <<94095, 94111>>, <<94176, 94177>>,
     <<94179, 94180>>, <<94194, 94195>>, <<110576, 110579>>,
     <<110581, 110587>>, <<110589, 110590>>, <<113821, 113822>>,
     <<113824, 113827>>, <<118528, 118573>>, <<118576, 118598>>,
     <<119143, 119145>>, <<119155, 119170>>, <<119173, 119179>>,
     <<119210, 119213>>, <<119362, 119364>>, <<121344, 121398>>,
     <<121403, 121452>>, <<121461, 121461>>, <<121476, 121476>>,
     <<121499, 121503>>, <<121505, 121519>>, <<122880, 122886>>,
     <<122888, 122904>>, <<122907, 122913>>, <<122915, 122916>>,
     <<122918, 122922>>, <<122928, 122989>>, <<123023, 123023>>,
     <<123184, 123197>>, <<123566, 123566>>, <<123628, 123631>>,
     <<124139, 124143>>, <<124398, 124399>>, <<124643, 124643>>,
     <<124646, 124646>>, <<124654, 124655>>, <<124661, 124661>>,
     <<124671, 124671>>, <<125136, 125142>>, <<125252, 125259>>,
     <<127995, 127999>>, <<917505, 917505>>, <<917536, 917631>>,
     <<917760, 917999>>}

InRanges(c, ranges) == \E r \in ranges : r[1] <= c /\ c <= r[2]

\* the bytes 0x80..0xBF continue a character
Continues(byte) == byte \in 128..191

\* str::is_char_boundary
is_char_boundary(text, index) ==
    \/ index = 0
    \/ index = Len(text)
    \/ index < Len(text) /\ ~Continues(text[index + 1])

\* the code point of the character that starts at byte i
CodePoint(text, i) ==
    LET C(k) == text[i + k] % 64
    IN IF text[i] < 128 THEN text[i]
       ELSE IF text[i] < 224 THEN (text[i] % 32) * 64 + C(1)
       ELSE IF text[i] < 240 THEN (text[i] % 16) * 4096 + C(1) * 64 + C(2)
       ELSE (text[i] % 8) * 262144 + C(1) * 4096 + C(2) * 64 + C(3)

\* char::encode_utf8
encode_utf8(c) ==
    IF c < 128 THEN <<c>>
    ELSE IF c < 2048 THEN <<192 + (c \div 64), 128 + (c % 64)>>
    ELSE IF c < 65536
    THEN <<224 + (c \div 4096), 128 + ((c \div 64) % 64), 128 + (c % 64)>>
    ELSE <<240 + (c \div 262144), 128 + ((c \div 4096) % 64),
           128 + ((c \div 64) % 64), 128 + (c % 64)>>

\* the lower case of a character: one code point, or two for U+0130
to_lower(c) ==
    IF c = 304 THEN <<105, 775>>
    ELSE LET runs == {r \in LowercaseRuns :
                         r[1] <= c /\ c <= r[2] /\ (c - r[1]) % r[3] = 0}
         IN IF runs = {} THEN <<c>> ELSE <<c + (CHOOSE r \in runs : TRUE)[4]>>

\* case_ignorable_then_cased over the characters before byte i, backwards,
\* and over the characters from byte i on: the first character that is not
\* Case_Ignorable exists and is Cased
CasedBefore(text, i) ==
    \E j \in 1..(i - 1) :
        /\ ~Continues(text[j])
        /\ InRanges(CodePoint(text, j), CasedRanges)
        /\ \A k \in (j + 1)..(i - 1) :
               Continues(text[k]) \/ InRanges(CodePoint(text, k), CaseIgnorableRanges)

CasedFrom(text, i) ==
    \E j \in i..Len(text) :
        /\ ~Continues(text[j])
        /\ InRanges(CodePoint(text, j), CasedRanges)
        /\ \A k \in i..(j - 1) :
               Continues(text[k]) \/ InRanges(CodePoint(text, k), CaseIgnorableRanges)

\* map_uppercase_sigma: a capital sigma (U+03A3, two bytes) at byte i becomes
\* the final sigma at the end of a word and the small sigma elsewhere
map_uppercase_sigma(text, i) ==
    IF CasedBefore(text, i) /\ ~CasedFrom(text, i + 2) THEN <<207, 130>>
    ELSE <<207, 131>>

\* the lower case of the character that starts at byte i, nothing for the
\* bytes that continue a character
LowercaseAt(text, i) ==
    IF Continues(text[i]) THEN <<>>
    ELSE IF text[i] < 128 THEN encode_utf8(to_lower(text[i])[1])
    ELSE With(CodePoint(text, i), LAMBDA c :
             IF c = 931 THEN map_uppercase_sigma(text, i)
             ELSE With(to_lower(c), LAMBDA lower :
                      IF Len(lower) = 1 THEN encode_utf8(lower[1])
                      ELSE encode_utf8(lower[1]) \o encode_utf8(lower[2])))

RECURSIVE LowercaseRange(_, _, _)
LowercaseRange(text, lo, hi) ==
    IF lo > hi THEN <<>>
    ELSE IF lo = hi THEN LowercaseAt(text, lo)
    ELSE LowercaseRange(text, lo, (lo + hi) \div 2)
             \o LowercaseRange(text, (lo + hi) \div 2 + 1, hi)

\* str::to_lowercase
to_lowercase(text) == LowercaseRange(text, 1, Len(text))

\* the six checksum values of the human-readable part and the data
\* (the BCH code of the crate, abstracted as a digest)
Bech32Checksum(hrp, data) ==
    LET d == Digest(5, hrp \o <<0>> \o data, 6) IN [i \in 1..6 |-> d[i] % 32]

\* Bech32::new(hrp, data).to_string()
Bech32_to_string(hrp, data) ==
    IF Len(hrp) < 1 \/ Len(hrp) > 83 THEN Err("bech32")
    ELSE LET all == data \o Bech32Checksum(hrp, data)
         IN Ok(hrp \o <<49>> \o [i \in 1..Len(all) |-> Bech32Charset[all[i] + 1]])

\* u8::to_ascii_lowercase on every byte: the data characters of a bech32
\* string are lowered one by one, and the characters beyond ASCII are
\* not in the character set
to_ascii_lowercase(text) ==
    [i \in 1..Len(text) |-> IF text[i] \in 65..90 THEN text[i] + 32 ELSE text[i]]

\* Bech32::from_str : the human-readable part and the data without checksum
Bech32_from_str(s) ==
    IF Len(s) < 8 \/ Len(s) > 90 \/ ~(\E i \in 1..Len(s) : s[i] = 49) THEN Err("bech32")
    ELSE LET sep == CHOOSE i \in 1..Len(s) : s[i] = 49 /\ \A j \in (i + 1)..Len(s) : s[j] # 49
             raw_hrp == Slice(s, 0, sep - 1)
             raw_data == Slice(s, sep, Len(s))
             lower == to_ascii_lowercase(raw_data)
             has_lower == \E i \in 1..Len(s) : s[i] \in 97..122
             has_upper == \E i \in 1..Len(s) : s[i] \in 65..90
         IN IF Len(raw_hrp) < 1 \/ Len(raw_data) < 6 THEN Err("bech32")
            ELSE IF \E i \in 1..Len(raw_hrp) : raw_hrp[i] < 33 \/ raw_hrp[i] > 126
            THEN Err("bech32")
            ELSE IF \E i \in 1..Len(lower) : \A c \in 1..32 : Bech32Charset[c] # lower[i]
            THEN Err("bech32")
            ELSE IF has_lower /\ has_upper THEN Err("bech32")
            ELSE LET hrp == to_lowercase(raw_hrp)
                     values == [i \in 1..Len(lower) |->
                                  (CHOOSE c \in 1..32 : Bech32Charset[c] = lower[i]) - 1]
                     data == Slice(values, 0, Len(values) - 6)
                 IN IF Slice(values, Len(values) - 6, Len(values)) # Bech32Checksum(hrp, data)
                    THEN Err("bech32")
                    ELSE Ok([hrp |-> hrp, data |-> data])

(***************************************************************************)
(* BitcoinAddress on Mainnet                                               *)
(***************************************************************************)
\* Mainnet::to_address_prefix
Mainnet_to_address_prefix(format) ==
    IF format = "P2PKH" THEN <<0>>
    ELSE IF format = "P2WSH" THEN <<0>>
    ELSE IF format = "P2SH_P2WPKH" THEN <<5>>
    ELSE <<98, 99>>

\* Mainnet::from_address_prefix ; it indexes prefix[0] and prefix[1]
Mainnet_from_address_prefix(prefix) ==
    IF Len(prefix) < 2 THEN Panic
    ELSE IF prefix[1] = 0 \/ prefix[1] = 5 \/ (prefix[1] = 98 /\ prefix[2] = 99)
    THEN Ok("Mainnet")
    ELSE Err("InvalidPrefix")

\* BitcoinFormat::from_address_prefix
BitcoinFormat_from_address_prefix(prefix) ==
    IF Len(prefix) < 2 THEN Err("InvalidPrefix")
    ELSE IF prefix[1] = 0 \/ prefix[1] = 111 THEN Ok("P2PKH")
    ELSE IF prefix[1] = 5 \/ prefix[1] = 196 THEN Ok("P2SH_P2WPKH")
    ELSE IF (prefix[1] = 98 /\ prefix[2] = 99) \/ (prefix[1] = 116 /\ prefix[2] = 98)
    THEN Ok("Bech32")
    ELSE Err("InvalidPrefix")

\* a BitcoinPublicKey: a point and the compressed flag
BitcoinPublicKey(point, compressed) == [public_key |-> point, compressed |-> compressed]

\* BitcoinAddress::create_redeem_script
create_redeem_script(public_key) ==
    <<0, 20>> \o hash160(serialize_compressed(public_key.public_key))

\* the 25 bytes prefix, hash and checksum
AddressBytes(prefix, hash) ==
    LET body == <<prefix>> \o hash
    IN body \o Slice(checksum(body), 0, 4)

p2pkh(public_key) ==
    LET serialized == IF public_key.compressed
                      THEN serialize_compressed(public_key.public_key)
                      ELSE serialize_uncompressed(public_key.public_key)
    IN Ok([address |-> to_base58(AddressBytes(Mainnet_to_address_prefix("P2PKH")[1],
                                              hash160(serialized))),
           format |-> "P2PKH"])

p2wsh(original_script) ==
    LET script == sha256(original_script)
        version == u5_try_from_u8(Mainnet_to_address_prefix("P2WSH")[1])
        text == Bech32_to_string(Mainnet_to_address_prefix("Bech32"),
                                 <<version.val>> \o to_base32(script))
    IN IF ~version.ok THEN version
       ELSE IF ~text.ok THEN text
       ELSE Ok([address |-> text.val, format |-> "P2WSH"])

p2sh_p2wpkh(public_key) ==
    Ok([address |-> to_base58(AddressBytes(Mainnet_to_address_prefix("P2SH_P2WPKH")[1],
                                           hash160(create_redeem_script(public_key)))),
        format |-> "P2SH_P2WPKH"])

bech32(public_key) ==
    LET redeem_script == create_redeem_script(public_key)
        version == u5_try_from_u8(redeem_script[1])
        text == Bech32_to_string(Mainnet_to_address_prefix("Bech32"),
                                 <<version.val>> \o to_base32(Slice(redeem_script, 2, 22)))
    IN IF ~version.ok THEN version
       ELSE IF ~text.ok THEN text
       ELSE Ok([address |-> text.val, format |-> "Bech32"])

\* Display for BitcoinAddress
address_to_string(self) == self.address

\* FromStr::from_str for BitcoinAddress<Mainnet>, the Bech32 branch
address_from_bech32(address_text, prefix) ==
    LET decoded == Bech32_from_str(address_text)
    IN IF ~decoded.ok THEN decoded
       ELSE IF decoded.val.data = <<>> THEN Err("InvalidAddress")
       ELSE LET version == decoded.val.data[1]
                program == from_base32(Slice(decoded.val.data, 1, Len(decoded.val.data)))
            IN IF ~program.ok THEN program
               ELSE LET data == <<version, Len(program.val) % 256>> \o program.val
                        witness == WitnessProgram_new(data)
                        network == Mainnet_from_address_prefix(prefix)
                    IN IF ~witness.ok THEN Err("WitnessProgram")
                       ELSE IF ~network.ok THEN network
                       ELSE Ok([address |-> address_text, format |-> "Bech32"])

\* FromStr::from_str for BitcoinAddress<Mainnet>
address_from_str(address_text) ==
    IF Len(address_text) < 14 \/ Len(address_text) > 74 THEN Err("InvalidCharacterLength")
    ELSE IF ~is_char_boundary(to_lowercase(address_text), 2) THEN Panic
    ELSE LET prefix == Slice(to_lowercase(address_text), 0, 2)
             by_prefix == BitcoinFormat_from_address_prefix(prefix)
         IN IF by_prefix.ok /\ by_prefix.val = "Bech32"
            THEN address_from_bech32(address_text, prefix)
            ELSE LET decoded == from_base58(address_text)
                 IN IF ~decoded.ok THEN decoded
                    ELSE IF Len(decoded.val) # 25 THEN Err("InvalidByteLength")
                    ELSE LET network == Mainnet_from_address_prefix(Slice(decoded.val, 0, 2))
                             format == BitcoinFormat_from_address_prefix(Slice(decoded.val, 0, 2))
                         IN IF ~network.ok THEN network
                            ELSE IF ~format.ok THEN format
                            ELSE Ok([address |-> address_text, format |-> format.val])

(***************************************************************************)
(* Addresses as a state machine: the wallet holds the address it           *)
(* constructed last and parses texts.                                      *)
(***************************************************************************)
MaxScript == 2

PublicKeys ==
    {BitcoinPublicKey(PublicFromSecret(k), c) : k \in 1..(CurveOrder - 1), c \in BOOLEAN}

\* witness scripts: n times OP_1
Scripts == {Repeat(81, n) : n \in 0..MaxScript}

\* texts derived from the held address. Of a Base58 address: the payload
\* with (1) a changed last checksum byte, (2) one byte fewer, (3) one byte
\* more, (4) the prefix 0x6F, (5) the leading bytes 0x62 0x63. Of a Bech32
\* address: (6) upper case, (7) a changed last character, (8) the first 13
\* characters. Of any address: (9) the second character replaced by the
\* euro sign, (10) the first character replaced by the capital I with dot
\* above (U+0130), (11) the first character replaced by the capital A with
\* grave, (12) the second character replaced by the Kelvin sign, (13) the
\* first character replaced by the capital ram's horn (U+A7CB, three
\* bytes), whose lower case U+0264 has two bytes.
MutatedTexts == 1..13

Mutated(held, m) ==
    IF m <= 5
    THEN LET bytes == from_base58(held.address).val
         IN to_base58(IF m = 1 THEN Corrupt(bytes)
                      ELSE IF m = 2 THEN Slice(bytes, 0, 24)
                      ELSE IF m = 3 THEN bytes \o <<0>>
                      ELSE IF m = 4 THEN [bytes EXCEPT ![1] = 111]
                      ELSE [bytes EXCEPT ![1] = 98, ![2] = 99])
    ELSE IF m = 6
    THEN [i \in 1..Len(held.address) |->
             IF held.address[i] \in 97..122 THEN held.address[i] - 32 ELSE held.address[i]]
    ELSE IF m = 7
    THEN [held.address EXCEPT ![Len(held.address)] = IF @ = 113 THEN 112 ELSE 113]
    ELSE IF m = 8 THEN Slice(held.address, 0, 13)
    ELSE IF m = 9
    THEN <<held.address[1], 226, 130, 172>> \o Slice(held.address, 2, Len(held.address))
    ELSE IF m = 10 THEN <<196, 176>> \o Tail(held.address)
    ELSE IF m = 11 THEN <<195, 128>> \o Tail(held.address)
    ELSE IF m = 12
    THEN <<held.address[1], 226, 132, 170>> \o Slice(held.address, 2, Len(held.address))
    ELSE <<234, 159, 139>> \o Tail(held.address)

\* no operation of this specification depends on the build profile
InitAddress ==
    /\ build = "release"
    /\ xprv = NoKey
    /\ address = NoAddress
    /\ tx = NoTransaction
    /\ call = Idle

NewP2PKH(public_key) ==
    /\ call = Idle
    /\ LET r == p2pkh(public_key)
       IN /\ call' = [op |-> "p2pkh", res |-> r]
          /\ address' = IF r.ok THEN r.val ELSE address
    /\ UNCHANGED <<build, xprv, tx>>

NewP2SH_P2WPKH(public_key) ==
    /\ call = Idle
    /\ LET r == p2sh_p2wpkh(public_key)
       IN /\ call' = [op |-> "p2sh_p2wpkh", res |-> r]
          /\ address' = IF r.ok THEN r.val ELSE address
    /\ UNCHANGED <<build, xprv, tx>>

NewBech32(public_key) ==
    /\ call = Idle
    /\ LET r == bech32(public_key)
       IN /\ call' = [op |-> "bech32", res |-> r]
          /\ address' = IF r.ok THEN r.val ELSE address
    /\ UNCHANGED <<build, xprv, tx>>

NewP2WSH(script) ==
    /\ call = Idle
    /\ LET r == p2wsh(script)
       IN /\ call' = [op |-> "p2wsh", res |-> r]
          /\ address' = IF r.ok THEN r.val ELSE address
    /\ UNCHANGED <<build, xprv, tx>>

\* from_str(a.to_string()) of the held address
ParseRendered ==
    /\ call = Idle
    /\ address # NoAddress
    /\ call' = [op |-> "render_parse_address", self |-> address,
                res |-> address_from_str(address_to_string(address))]
    /\ UNCHANGED <<build, xprv, address, tx>>

FromStrAddress(m) ==
    /\ call = Idle
    /\ address # NoAddress
    /\ m > 8 \/ (m <= 5) = (address.format \in {"P2PKH", "P2SH_P2WPKH"})
    /\ LET text == Mutated(address, m)
       IN call' = [op |-> "address_from_str", text |-> text, res |-> address_from_str(text)]
    /\ UNCHANGED <<build, xprv, address, tx>>

NextAddress ==
    \/ Return
    \/ \E public_key \in PublicKeys : NewP2PKH(public_key)
    \/ \E public_key \in PublicKeys : NewP2SH_P2WPKH(public_key)
    \/ \E public_key \in PublicKeys : NewBech32(public_key)
    \/ \E script \in Scripts : NewP2WSH(script)
    \/ ParseRendered
    \/ \E m \in MutatedTexts : FromStrAddress(m)

SpecAddress == InitAddress /\ [][NextAddress]_vars

(***************************************************************************)
(* Transactions: the codec.  A u32 is a pair of 16-bit limbs, an amount    *)
(* (i64) four limbs in two's complement, most significant limb first.      *)
(***************************************************************************)
None == [some |-> FALSE]

Some(v) == [some |-> TRUE, val |-> v]

U32FromLE(buf) == <<buf[3] + 256 * buf[4], buf[1] + 256 * buf[2]>>

U32ToLE(v) == <<v[2] % 256, v[2] \div 256, v[1] % 256, v[1] \div 256>>

LE64(value) ==
    LE32(value) \o <<value[2] % 256, value[2] \div 256, value[1] % 256, value[1] \div 256>>

\* a <= b on limb tuples of equal length
LimbsLE(a, b) ==
    \/ a = b
    \/ \E i \in 1..Len(a) : a[i] < b[i] /\ \A j \in 1..(i - 1) : a[j] = b[j]

\* 21_000_000 * 1_0000_0000 and its negation as i64
MAX_COINS == U64(7, 30192, 23047, 16384)

MinusMAX_COINS == U64(65528, 35343, 42488, 49152)

from_satoshi(satoshis) ==
    IF LimbsLE(satoshis, MAX_COINS) \/ LimbsLE(MinusMAX_COINS, satoshis)
    THEN Ok(satoshis)
    ELSE Err("AmountOutOfBounds")

\* SignatureHash as its discriminant byte
SIG_ALL == 1

SignatureHashes == {1, 2, 3, 129, 130, 131}

SignatureHash_from_byte(byte) == IF byte \in SignatureHashes THEN byte ELSE SIG_ALL

\* a value read together with the bytes left in the reader
Rd(v, rest) == [ok |-> TRUE, val |-> v, rest |-> rest]

\* a length as u64, and a u64 below 2^31 as a number
USize(n) == U64(0, 0, n \div 65536, n % 65536)

ElementCount(val) == val[4] + 65536 * val[3]

\* usize values: a < b, a - b, and a * n for a small n
Less(a, b) == \E i \in 1..4 : a[i] < b[i] /\ \A j \in 1..(i - 1) : a[j] = b[j]

Minus(a, b) == wrapping_add(a, BitNot(b), 1)

Times(a, n) ==
    LET p4 == a[4] * n
        p3 == a[3] * n + p4 \div 65536
        p2 == a[2] * n + p3 \div 65536
        p1 == a[1] * n + p2 \div 65536
    IN U64(p1 % 65536, p2 % 65536, p3 % 65536, p4 % 65536)

(***************************************************************************)
(* Vectors longer than their reader.  BitcoinVector::read reads as many    *)
(* elements as the count says, and a reader that has run out of bytes      *)
(* keeps answering: every byte it gives is zero and every element read     *)
(* from it is the same.  Up to MaxPlain such elements are written out.  A  *)
(* longer run of zero bytes is kept as the item -1 followed by the four    *)
(* limbs of its length; a longer run of inputs or outputs is kept as one   *)
(* element with the field `repeated`, a longer run of witness elements     *)
(* (each the single byte 0x00) as a run of zero bytes.  A vector never     *)
(* holds more than isize::MAX bytes: growing to 2^63 elements panics       *)
(* (capacity overflow).  Whether the allocator grants a vector below that  *)
(* size depends on the machine: the readers and the serializer take the    *)
(* answer as `granted`, and where a vector kept as a run is refused the    *)
(* process aborts, before any error that the bytes after it would give.    *)
(***************************************************************************)
MaxPlain == 16

Zeros(n) == <<-1>> \o n

Runs(bytes) == {i \in 1..Len(bytes) : bytes[i] = -1}

RECURSIVE RunsTotal(_, _)
RunsTotal(bytes, runs) ==
    IF runs = {} THEN U64(0, 0, 0, 0)
    ELSE LET i == CHOOSE r \in runs : TRUE
         IN wrapping_add(Slice(bytes, i, i + 4), RunsTotal(bytes, runs \ {i}), 0)

\* bytes.len()
Size(bytes) ==
    With(Runs(bytes), LAMBDA runs :
        wrapping_add(USize(Len(bytes) - 5 * Cardinality(runs)), RunsTotal(bytes, runs), 0))

\* bytes[index] with its bounds check: None when index >= bytes.len()
RECURSIVE ByteAt(_, _)
ByteAt(bytes, index) ==
    IF Runs(bytes) = {}
    THEN IF Less(index, USize(Len(bytes))) THEN Some(bytes[ElementCount(index) + 1])
         ELSE None
    ELSE LET p == CHOOSE i \in Runs(bytes) : \A j \in Runs(bytes) : i <= j
             past == Minus(index, USize(p - 1))
             n == Slice(bytes, p, p + 4)
         IN IF Less(index, USize(p - 1)) THEN Some(bytes[ElementCount(index) + 1])
            ELSE IF Less(past, n) THEN Some(0)
            ELSE ByteAt(Slice(bytes, p + 4, Len(bytes)), Minus(past, n))

\* the bytes before the first run of zeros (all of them when there is none)
Leading(bytes) ==
    IF Runs(bytes) = {} THEN bytes
    ELSE Slice(bytes, 0, (CHOOSE i \in Runs(bytes) : \A j \in Runs(bytes) : i <= j) - 1)

\* bytes[bytes.len() - 1] of a non-empty byte string
LastByte(bytes) ==
    IF Len(bytes) >= 5 /\ bytes[Len(bytes) - 4] = -1 THEN 0 ELSE bytes[Len(bytes)]

\* an element that stands for a run of equal elements, and the run's length
IsRun(kind, element) ==
    IF kind = "witness" THEN Len(element) > 0 /\ element[1] = -1
    ELSE "repeated" \in DOMAIN element

Repeated(kind, element, n) ==
    IF kind = "witness" THEN Zeros(n)
    ELSE [field \in DOMAIN element \cup {"repeated"} |->
              IF field = "repeated" THEN n ELSE element[field]]

\* vec.len()
RECURSIVE Count(_, _)
Count(kind, vec) ==
    IF Len(vec) = 0 THEN U64(0, 0, 0, 0)
    ELSE LET last == vec[Len(vec)]
         IN wrapping_add(IF ~IsRun(kind, last) THEN U64(0, 0, 0, 1)
                         ELSE IF kind = "witness" THEN Tail(last)
                         ELSE last.repeated,
                         Count(kind, Slice(vec, 0, Len(vec) - 1)), 0)

\* the bytes written for an element: a run of elements read from the
\* exhausted reader is written as zero bytes only
Copies(kind, element, bytes) ==
    IF IsRun(kind, element) THEN Zeros(Times(element.repeated, Len(bytes))) ELSE bytes

\* BitcoinVector::read with the one-byte element reader
ReadBytes(reader, granted) ==
    With(read_variable_length_integer(reader), LAMBDA count :
        IF ~count.ok THEN count
        ELSE IF ~Less(USize(Len(count.rest) + MaxPlain), count.val)
        THEN Rd(ReadBuf(count.rest, ElementCount(count.val)),
                ReadRest(count.rest, ElementCount(count.val)))
        ELSE IF count.val[1] >= 32768 \/ ~granted THEN Panic
        ELSE Rd(count.rest \o Zeros(Minus(count.val, USize(Len(count.rest)))), <<>>))

\* opcodes of the scripts
OP_DUP == 118

OP_HASH160 == 169

OP_CHECKSIG == 172

OP_EQUAL == 135

OP_EQUALVERIFY == 136

\* the version and the program of a Bech32 text, as [version, length] ++ program
Bech32ProgramBytes(text) ==
    With(Bech32_from_str(text), LAMBDA decoded :
        IF ~decoded.ok THEN decoded
        ELSE IF decoded.val.data = <<>> THEN Panic
        ELSE With(from_base32(Slice(decoded.val.data, 1, Len(decoded.val.data))),
                  LAMBDA program :
                      IF ~program.ok THEN program
                      ELSE Ok(<<decoded.val.data[1], Len(program.val) % 256>>
                              \o program.val)))

create_script_pub_key(addr) ==
    IF addr.format \in {"P2PKH", "P2SH_P2WPKH"}
    THEN With(from_base58(addr.address), LAMBDA bytes :
             IF ~bytes.ok THEN bytes
             ELSE IF Len(bytes.val) < 5 THEN Panic
             ELSE With(Slice(bytes.val, 1, Len(bytes.val) - 4), LAMBDA hash :
                      With(variable_length_integer(USize(Len(hash))).val, LAMBDA size :
                          IF addr.format = "P2PKH"
                          THEN Ok(<<OP_DUP, OP_HASH160>> \o size \o hash
                                  \o <<OP_EQUALVERIFY, OP_CHECKSIG>>)
                          ELSE Ok(<<OP_HASH160>> \o size \o hash \o <<OP_EQUAL>>))))
    ELSE With(Bech32ProgramBytes(addr.address), LAMBDA program_bytes :
             IF ~program_bytes.ok THEN program_bytes
             ELSE IF addr.format = "P2WSH" THEN program_bytes
             \* the version of a program that WitnessProgram::new returns is
             \* at most 16: the encoded version is the same in both builds
             ELSE With(WitnessProgram_new(program_bytes.val), LAMBDA program :
                      IF ~program.ok THEN program
                      ELSE to_scriptpubkey(program.val, "debug")))

\* a && b && c over script bytes with Rust's short-circuit evaluation and
\* bounds checks: each test is <<0-based index, byte>> and reads
\* script[index] # byte
RECURSIVE AllDiffer(_, _)
AllDiffer(script, tests) ==
    IF tests = <<>> THEN Ok(TRUE)
    ELSE IF tests[1][1] < 0 \/ tests[1][1] >= Len(script) THEN Panic
    ELSE IF script[tests[1][1] + 1] = tests[1][2] THEN Ok(FALSE)
    ELSE AllDiffer(script, Tail(tests))

\* the checks of Outpoint::new on the redeem script and the script_pub_key
OutpointRedeemScript(format, redeem_script, script_pub_key) ==
    LET last == Len(script_pub_key) - 1
        Checked(tests, kept) ==
            LET differ == AllDiffer(script_pub_key, tests)
            IN IF ~differ.ok THEN differ
               ELSE IF differ.val THEN Err("InvalidScriptPubKey")
               ELSE Ok(kept)
    IN CASE format = "P2PKH" ->
              IF redeem_script.some THEN Err("InvalidInputs")
              ELSE Checked(<<<<0, OP_DUP>>, <<1, OP_HASH160>>, <<last, OP_CHECKSIG>>>>, None)
         [] format = "P2WSH" ->
              IF ~redeem_script.some THEN Err("InvalidInputs")
              ELSE LET differ == AllDiffer(script_pub_key, <<<<0, 0>>, <<1, 32>>>>)
                   IN IF ~differ.ok THEN differ
                      ELSE IF differ.val /\ Len(script_pub_key) # 34
                      THEN Err("InvalidScriptPubKey")
                      ELSE Ok(redeem_script)
         [] format = "P2SH_P2WPKH" ->
              IF ~redeem_script.some THEN Err("InvalidInputs")
              ELSE Checked(<<<<0, OP_HASH160>>, <<last, OP_EQUAL>>>>, redeem_script)
         [] format = "Bech32" ->
              IF redeem_script.some THEN Err("InvalidInputs") ELSE Ok(None)

Outpoint_new(reverse_transaction_id, index, addr, amount, redeem_script, script_pub_key) ==
    LET Made(s, r) ==
            Ok([reverse_transaction_id |-> reverse_transaction_id, index |-> index,
                amount |-> amount, script_pub_key |-> s, redeem_script |-> r,
                address |-> addr])
    IN IF ~addr.some THEN Made(None, None)
       ELSE With(create_script_pub_key(addr.val), LAMBDA created :
                IF ~created.ok THEN created
                ELSE With(IF script_pub_key.some THEN script_pub_key.val
                          ELSE created.val,
                          LAMBDA script :
                              With(OutpointRedeemScript(addr.val.format, redeem_script,
                                                        script),
                                   LAMBDA redeem :
                                       IF ~redeem.ok THEN redeem
                                       ELSE Made(Some(script), redeem.val))))

DEFAULT_SEQUENCE == <<255, 255, 255, 255>>

BitcoinTransactionInput_new(transaction_id, index, addr, amount, redeem_script, script_pub_key, sequence, sighash) ==
    IF Len(transaction_id) # 32 THEN Err("InvalidTransactionId")
    ELSE With(Outpoint_new(Reverse(transaction_id), index, addr, amount,
                           redeem_script, script_pub_key),
              LAMBDA outpoint :
                  IF ~outpoint.ok THEN outpoint
                  ELSE Ok([outpoint |-> outpoint.val,
                           script_sig |-> <<>>,
                           sequence |-> IF sequence.some THEN sequence.val
                                        ELSE DEFAULT_SEQUENCE,
                           sighash_code |-> sighash,
                           witnesses |-> <<>>,
                           is_signed |-> FALSE,
                           additional_witness |-> None,
                           witness_script_data |-> None]))

\* the sighash byte that BitcoinTransactionInput::read takes from a scriptSig
ScriptSigSighash(script_sig) ==
    With(read_variable_length_integer(Leading(script_sig)), LAMBDA script_sig_len :
        IF ~script_sig_len.ok THEN script_sig_len
        ELSE IF script_sig_len.val = U64(0, 0, 0, 0) THEN Ok(SIG_ALL)
        ELSE With(ByteAt(script_sig, script_sig_len.val), LAMBDA byte :
                 IF byte.some THEN Ok(SignatureHash_from_byte(byte.val)) ELSE Panic))

BitcoinTransactionInput_read(reader, granted) ==
    With(ReadRest(reader, 32), LAMBDA r1 :
    With(ReadBytes(ReadRest(r1, 4), granted), LAMBDA script_sig :
        IF ~script_sig.ok THEN script_sig
        ELSE With(ScriptSigSighash(script_sig.val), LAMBDA sighash_code :
            IF ~sighash_code.ok THEN sighash_code
            ELSE LET transaction_hash == ReadBuf(reader, 32)
                     vin == ReadBuf(r1, 4)
                     sequence == ReadBuf(script_sig.rest, 4)
                     r3 == ReadRest(script_sig.rest, 4)
                 IN Rd([outpoint |-> Outpoint_new(transaction_hash, U32FromLE(vin),
                                                   None, None, None, None).val,
                        script_sig |-> script_sig.val,
                        sequence |-> sequence,
                        sighash_code |-> sighash_code.val,
                        witnesses |-> <<>>,
                        is_signed |-> Len(script_sig.val) > 0,
                        additional_witness |-> None,
                        witness_script_data |-> None], r3))))

BitcoinTransactionInput_serialize(self, raw) ==
    LET head == self.outpoint.reverse_transaction_id \o U32ToLE(self.outpoint.index)
        script ==
            IF raw THEN Ok(<<0>>)
            ELSE IF Len(self.script_sig) = 0
            THEN IF ~self.outpoint.address.some THEN Ok(<<0>>)
                 ELSE IF self.outpoint.address.val.format \in {"Bech32", "P2WSH"}
                 THEN Ok(<<0>>)
                 ELSE IF ~self.outpoint.script_pub_key.some
                 THEN Err("MissingOutpointScriptPublicKey")
                 ELSE Ok(variable_length_integer(
                            Size(self.outpoint.script_pub_key.val)).val
                         \o self.outpoint.script_pub_key.val)
            ELSE Ok(variable_length_integer(Size(self.script_sig)).val
                    \o self.script_sig)
    IN With(script, LAMBDA made :
           IF ~made.ok THEN made ELSE Ok(head \o made.val \o self.sequence))

BitcoinTransactionOutput_read(reader, granted) ==
    With(ReadBytes(ReadRest(reader, 8), granted), LAMBDA script_pub_key :
        IF ~script_pub_key.ok THEN script_pub_key
        ELSE With(from_satoshi(FromLE(ReadBuf(reader, 8))), LAMBDA checked :
                 IF ~checked.ok THEN checked
                 ELSE Rd([amount |-> checked.val,
                          script_pub_key |-> script_pub_key.val],
                         script_pub_key.rest)))

BitcoinTransactionOutput_serialize(self) ==
    LE64(self.amount)
        \o variable_length_integer(Size(self.script_pub_key)).val
        \o self.script_pub_key

\* BitcoinVector::read_witness with the one-byte element reader, as used
\* for one witness element: the element keeps its length prefix
ReadWitnessElement(reader, granted) ==
    With(read_variable_length_integer(reader), LAMBDA size :
        IF ~size.ok THEN size
        ELSE IF ~Less(USize(Len(size.rest) + MaxPlain), size.val)
        THEN Rd(variable_length_integer(size.val).val
                    \o ReadBuf(size.rest, ElementCount(size.val)),
                ReadRest(size.rest, ElementCount(size.val)))
        ELSE IF size.val[1] >= 32768 \/ ~granted THEN Panic
        ELSE Rd(variable_length_integer(size.val).val \o size.rest
                    \o Zeros(Minus(size.val, USize(Len(size.rest)))), <<>>))

ReadElement(kind, reader, granted) ==
    CASE kind = "input" -> BitcoinTransactionInput_read(reader, granted)
      [] kind = "output" -> BitcoinTransactionOutput_read(reader, granted)
      [] kind = "witness" -> ReadWitnessElement(reader, granted)

\* (0..count).map(|_| func(&mut reader)).collect(): the elements are read
\* one by one and the first error ends the reading, whatever the count
RECURSIVE ReadElements(_, _, _, _, _)
ReadElements(kind, reader, count, acc, granted) ==
    IF count = USize(Len(acc)) THEN Rd(acc, reader)
    ELSE IF reader = <<>> /\ Less(USize(Len(acc) + MaxPlain), count)
    THEN IF count[1] >= 32768 \/ ~granted THEN Panic
         ELSE Rd(Append(acc, Repeated(kind, ReadElement(kind, reader, granted).val,
                                      Minus(count, USize(Len(acc))))), reader)
    ELSE With(ReadElement(kind, reader, granted), LAMBDA element :
             IF ~element.ok THEN element
             ELSE With(Append(acc, element.val), LAMBDA read :
                      ReadElements(kind, element.rest, count, read, granted)))

BitcoinVector_read(kind, reader, granted) ==
    With(read_variable_length_integer(reader), LAMBDA count :
        IF ~count.ok THEN count
        ELSE ReadElements(kind, count.rest, count.val, <<>>, granted))

\* the witness stacks of the inputs, read in input order
RECURSIVE ReadWitnesses(_, _, _, _)
ReadWitnesses(inputs, i, reader, granted) ==
    IF i > Len(inputs) THEN Rd(inputs, reader)
    ELSE With(BitcoinVector_read("witness", reader, granted), LAMBDA witness :
             IF ~witness.ok THEN witness
             ELSE LET input == inputs[i]
                      first == witness.val[1]
                      read == IF Len(witness.val) > 0
                              THEN [input EXCEPT
                                       !.sighash_code =
                                           SignatureHash_from_byte(LastByte(first)),
                                       !.is_signed = TRUE,
                                       !.witnesses = witness.val]
                              ELSE [input EXCEPT !.witnesses = witness.val]
                  IN With([inputs EXCEPT ![i] = read], LAMBDA next :
                         ReadWitnesses(next, i + 1, witness.rest, granted)))

Parameters(version, inputs, outputs, lock_time, segwit_flag) ==
    [version |-> version, inputs |-> inputs, outputs |-> outputs,
     lock_time |-> lock_time, segwit_flag |-> segwit_flag]

\* the part of BitcoinTransactionParameters::read after the inputs
ReadAfterInputs(version, inputs, segwit_flag, reader, granted) ==
    With(BitcoinVector_read("output", reader, granted), LAMBDA outputs :
        IF ~outputs.ok THEN outputs
        ELSE With(IF segwit_flag THEN ReadWitnesses(inputs, 1, outputs.rest, granted)
                  ELSE Rd(inputs, outputs.rest),
                  LAMBDA witnessed :
                      IF ~witnessed.ok THEN witnessed
                      ELSE Ok(Parameters(U32FromLE(version), witnessed.val, outputs.val,
                                         U32FromLE(ReadBuf(witnessed.rest, 4)),
                                         segwit_flag))))

\* the inputs and what follows them; when no input is read at the first
\* attempt, the next byte is the segwit flag and the inputs are read again
RECURSIVE ReadFromInputs(_, _, _, _)
ReadFromInputs(version, segwit_flag, reader, granted) ==
    With(BitcoinVector_read("input", reader, granted), LAMBDA inputs :
        IF ~inputs.ok THEN inputs
        ELSE IF segwit_flag \/ Len(inputs.val) > 0
        THEN ReadAfterInputs(version, inputs.val, segwit_flag, inputs.rest, granted)
        ELSE IF ReadBuf(inputs.rest, 1)[1] # 1 THEN Err("InvalidSegwitFlag")
        ELSE ReadFromInputs(version, TRUE, ReadRest(inputs.rest, 1), granted))

BitcoinTransactionParameters_read(reader, granted) ==
    ReadFromInputs(ReadBuf(reader, 4), FALSE, ReadRest(reader, 4), granted)

from_transaction_bytes(transaction, granted) ==
    BitcoinTransactionParameters_read(transaction, granted)

\* concatenation of a sequence of byte strings
RECURSIVE Flatten(_)
Flatten(ss) == IF ss = <<>> THEN <<>> ELSE ss[1] \o Flatten(Tail(ss))

\* the serialized inputs, or the first error; the bytes of a long vector
\* are written to a vector as long
RECURSIVE SerializeInputs(_, _, _)
SerializeInputs(inputs, i, granted) ==
    IF i > Len(inputs) THEN Ok(<<>>)
    ELSE With(BitcoinTransactionInput_serialize(inputs[i], ~inputs[i].is_signed),
              LAMBDA input :
                  IF ~input.ok THEN input
                  ELSE With(Copies("input", inputs[i], input.val), LAMBDA bytes :
                      IF Runs(bytes) # {} /\ ~granted THEN Panic
                      ELSE With(SerializeInputs(inputs, i + 1, granted), LAMBDA others :
                               IF ~others.ok THEN others
                               ELSE Ok(bytes \o others.val))))

\* has_witness after the loop over the inputs
HasWitness(inputs) == \E i \in 1..Len(inputs) : Len(inputs[i].witnesses) > 0

WitnessStack(input) ==
    IF Len(input.witnesses) = 0 THEN <<0>>
    ELSE variable_length_integer(Count("witness", input.witnesses)).val
             \o Flatten(input.witnesses)

\* the bytes of to_transaction_bytes before the inputs, and after the outputs
MarkerAndFlag(self) == IF self.segwit_flag THEN <<0, 1>> ELSE <<>>

WitnessSection(self) ==
    IF HasWitness(self.inputs)
    THEN Flatten([i \in 1..Len(self.inputs) |->
                     Copies("input", self.inputs[i], WitnessStack(self.inputs[i]))])
    ELSE <<>>

to_transaction_bytes(self, granted) ==
    With(SerializeInputs(self.inputs, 1, granted), LAMBDA inputs :
        IF ~inputs.ok THEN inputs
        ELSE With(U32ToLE(self.version)
                  \o MarkerAndFlag(self)
                  \o variable_length_integer(Count("input", self.inputs)).val
                  \o inputs.val
                  \o variable_length_integer(Count("output", self.outputs)).val
                  \o Flatten([i \in 1..Len(self.outputs) |->
                                  Copies("output", self.outputs[i],
                                         BitcoinTransactionOutput_serialize(self.outputs[i]))])
                  \o WitnessSection(self)
                  \o U32ToLE(self.lock_time),
                  LAMBDA transaction :
                      IF Runs(transaction) # {} /\ ~granted THEN Panic
                      ELSE Ok(transaction)))

(***************************************************************************)
(* Transactions handed to the codec: well-formed byte strings in the wire  *)
(* format, their truncations, and scriptSigs whose first byte is not the   *)
(* length of a push inside the script.                                     *)
(***************************************************************************)
MaxInputs == 2

\* scriptSigs: empty, one push of (signature byte, sighash byte), and two
\* whose leading length reaches to or past the end of the script
PushScriptSigs == {<<>>, <<2, 48, 131>>}

OverlongScriptSigs == {<<5>>, <<3, 48, 1>>}

\* witness stacks as lists of elements without their length prefixes
WitnessStacks == {<<>>, <<<<48, 1>>, <<3>>>>}

WireInput(s, w) ==
    [transaction_hash |-> Repeat(17, 32), vin |-> <<1, 0, 0, 0>>, script_sig |-> s,
     sequence |-> <<255, 255, 255, 254>>, witness |-> w]

WireInputs == {WireInput(s, w) : s \in PushScriptSigs, w \in WitnessStacks}

OverlongInputs == {<<WireInput(s, w)>> : s \in OverlongScriptSigs, w \in WitnessStacks}

WireOutputs == {<<[amount |-> <<1, 2, 0, 0, 0, 0, 0, 0>>, script_pub_key |-> <<81>>]>>}

WireTransactions ==
    {[version |-> <<2, 0, 0, 0>>, segwit |-> g, inputs |-> i, outputs |-> o,
      lock_time |-> <<7, 0, 0, 1>>] :
        g \in BOOLEAN,
        i \in (SeqsUpTo(WireInputs, MaxInputs) \ {<<>>}) \cup OverlongInputs,
        o \in WireOutputs}

Legacy(w) == ~w.segwit /\ \A i \in 1..Len(w.inputs) : w.inputs[i].witness = <<>>

WitnessFree(w) == w.segwit /\ \A i \in 1..Len(w.inputs) : w.inputs[i].witness = <<>>

WitnessBearing(w) == w.segwit /\ \E i \in 1..Len(w.inputs) : w.inputs[i].witness # <<>>

PushesOnly(w) == \A i \in 1..Len(w.inputs) : w.inputs[i].script_sig \in PushScriptSigs

\* a byte string with a one-byte length in front
Prefixed(bytes) == <<Len(bytes)>> \o bytes

\* the wire format: version, marker and flag of a segwit transaction, the
\* inputs, the outputs, one witness stack per input of a segwit
\* transaction, lock_time
WireBytes(w) ==
    w.version
    \o (IF w.segwit THEN <<0, 1>> ELSE <<>>)
    \o <<Len(w.inputs)>>
    \o Flatten([i \in 1..Len(w.inputs) |->
            w.inputs[i].transaction_hash \o w.inputs[i].vin
            \o Prefixed(w.inputs[i].script_sig) \o w.inputs[i].sequence])
    \o <<Len(w.outputs)>>
    \o Flatten([i \in 1..Len(w.outputs) |->
            w.outputs[i].amount \o Prefixed(w.outputs[i].script_pub_key)])
    \o (IF w.segwit
        THEN Flatten([i \in 1..Len(w.inputs) |->
                <<Len(w.inputs[i].witness)>>
                \o Flatten([j \in 1..Len(w.inputs[i].witness) |->
                        Prefixed(w.inputs[i].witness[j])])])
        ELSE <<>>)
    \o w.lock_time

\* transaction values handed to BitcoinTransaction::new: the fields are
\* public, so segwit_flag and the witnesses are set independently
ValueInputs ==
    {[outpoint |-> Outpoint_new(Repeat(17, 32), <<0, 1>>, None, None, None, None).val,
      script_sig |-> <<>>,
      sequence |-> <<255, 255, 255, 255>>, sighash_code |-> SIG_ALL,
      witnesses |-> w, is_signed |-> w # <<>>,
      additional_witness |-> None, witness_script_data |-> None] :
        w \in {<<>>, <<<<2, 48, 1>>, <<1, 3>>>>}}

TransactionValues ==
    {Parameters(<<0, 2>>, i, <<[amount |-> U64(0, 0, 0, 513), script_pub_key |-> <<81>>]>>,
                <<0, 0>>, g) :
        i \in SeqsUpTo(ValueInputs, MaxInputs), g \in BOOLEAN}

InitCodec ==
    /\ build = "release"
    /\ xprv = NoKey
    /\ address = NoAddress
    /\ tx = NoTransaction
    /\ call = Idle

\* A behaviour follows one transaction value: it is constructed once, from
\* bytes or from parameters, and the other operations act on it.
\* BitcoinTransaction::from_transaction_bytes(&WireBytes(w)[..n])
FromTransactionBytes(w, n, granted) ==
    /\ call = Idle
    /\ tx = NoTransaction
    /\ n <= Len(WireBytes(w))
    /\ call' = With(Slice(WireBytes(w), 0, n), LAMBDA bytes :
                   [op |-> "from_transaction_bytes", wire |-> w, bytes |-> bytes,
                    res |-> from_transaction_bytes(bytes, granted)])
    /\ tx' = IF call'.res.ok THEN call'.res.val ELSE tx
    /\ UNCHANGED <<build, xprv, address>>

\* BitcoinTransaction::new(&parameters)
NewTransaction(parameters) ==
    /\ call = Idle
    /\ tx = NoTransaction
    /\ call' = [op |-> "new", res |-> Ok(parameters)]
    /\ tx' = parameters
    /\ UNCHANGED <<build, xprv, address>>

\* tx.to_transaction_bytes()
ToTransactionBytes(granted) ==
    /\ call = Idle
    /\ tx # NoTransaction
    /\ call' = [op |-> "to_transaction_bytes", self |-> tx, res |-> to_transaction_bytes(tx, granted)]
    /\ UNCHANGED <<build, xprv, address, tx>>

\* from_transaction_bytes(&bytes)?.to_transaction_bytes()
ParseSerialize(w, granted) ==
    /\ call = Idle
    /\ tx = NoTransaction
    /\ call' = With(WireBytes(w), LAMBDA bytes :
               With(from_transaction_bytes(bytes, granted), LAMBDA parsed :
                   [op |-> "parse_serialize", wire |-> w, bytes |-> bytes,
                    parsed |-> parsed,
                    res |-> IF parsed.ok THEN to_transaction_bytes(parsed.val, granted)
                            ELSE parsed]))
    /\ tx' = IF call'.parsed.ok THEN call'.parsed.val ELSE tx
    /\ UNCHANGED <<build, xprv, address>>

\* counts that declare more elements than any reader of the model holds:
\* 2^31, 2^32 and 2^64 - 1
DeclaredCounts == {U64(0, 0, 32768, 0), U64(0, 1, 0, 0), U64(65535, 65535, 65535, 65535)}

\* the bytes with the byte at position `at` replaced by the encoding of count
Declared(bytes, at, count) ==
    Slice(bytes, 0, at - 1) \o variable_length_integer(count).val
        \o Slice(bytes, at, Len(bytes))

\* the transactions whose counts are replaced: one input, as a legacy
\* transaction without witness or a segwit transaction with one
OversizedWires ==
    {w \in WireTransactions :
        Len(w.inputs) = 1 /\ PushesOnly(w) /\ (Legacy(w) \/ WitnessBearing(w))}

\* BitcoinTransaction::from_transaction_bytes on a transaction one of whose
\* bytes, a count or not, is replaced by a count beyond the bytes that
\* follow.  A vector longer than its reader is granted by the allocator or
\* the process aborts.
FromOversizedBytes(w, at, count, granted) ==
    /\ call = Idle
    /\ tx = NoTransaction
    /\ at <= Len(WireBytes(w))
    /\ call' = With(Declared(WireBytes(w), at, count), LAMBDA bytes :
                   [op |-> "from_transaction_bytes", wire |-> w, bytes |-> bytes,
                    res |-> from_transaction_bytes(bytes, granted)])
    /\ tx' = IF call'.res.ok THEN call'.res.val ELSE tx
    /\ UNCHANGED <<build, xprv, address>>

\* every length of a prefix of the longest transaction
MaxWire == 4 + 2 + 1 + MaxInputs * (32 + 4 + 4 + 4) + 1 + 10 + MaxInputs * 6 + 4

NextCodec ==
    \/ Return
    \/ \E w \in WireTransactions, n \in 0..MaxWire, granted \in BOOLEAN :
           FromTransactionBytes(w, n, granted)
    \/ \E parameters \in TransactionValues : NewTransaction(parameters)
    \/ \E granted \in BOOLEAN : ToTransactionBytes(granted)
    \/ \E w \in WireTransactions, granted \in BOOLEAN : ParseSerialize(w, granted)
    \/ \E w \in OversizedWires, at \in 5..MaxWire, count \in DeclaredCounts, granted \in BOOLEAN :
           FromOversizedBytes(w, at, count, granted)

SpecCodec == InitCodec /\ [][NextCodec]_vars

(***************************************************************************)
(* Transactions: the signer.  ECDSA is abstracted as a deterministic       *)
(* function of the digest and the secret key; the two signature preimages, *)
(* whose code is not part of the sources, follow their description.        *)
(***************************************************************************)
BitcoinPrivateKey(secret_key, compressed) ==
    [secret_key |-> secret_key, compressed |-> compressed]

to_public_key(private_key) ==
    BitcoinPublicKey(PublicFromSecret(private_key.secret_key), private_key.compressed)

\* BitcoinAddress::from_private_key
from_private_key(private_key, format) ==
    CASE format = "P2PKH" -> p2pkh(to_public_key(private_key))
      [] format = "P2WSH" -> Err("IncompatibleFormats")
      [] format = "P2SH_P2WPKH" -> p2sh_p2wpkh(to_public_key(private_key))
      [] format = "Bech32" -> bech32(to_public_key(private_key))

\* secp256k1::sign(message, secret_key).0.serialize_der(): a DER sequence
\* of two one-byte integers
SignatureDER(message, secret_key) ==
    LET d == Digest(6, message \o secret_serialize(secret_key), 2)
    IN <<48, 6, 2, 1, d[1], 2, 1, d[2]>>

\* outpoint of an input as serialized: reversed transaction id and index
OutpointBytes(input) ==
    input.outpoint.reverse_transaction_id \o U32ToLE(input.outpoint.index)

OutputsBytes(self) ==
    Flatten([i \in 1..Len(self.outputs) |->
                BitcoinTransactionOutput_serialize(self.outputs[i])])

\* legacy preimage: the transaction with the scriptSig of input vin replaced
\* by its scriptPubKey and the other scripts blanked, and the sighash type
\* as a little-endian 32-bit trailer
p2pkh_hash_preimage(self, vin, sighash) ==
    LET script_pub_key == self.inputs[vin].outpoint.script_pub_key
        Script(i) == IF i = vin
                     THEN variable_length_integer(USize(Len(script_pub_key.val))).val
                              \o script_pub_key.val
                     ELSE <<0>>
    IN IF ~script_pub_key.some THEN Err("MissingOutpointScriptPublicKey")
       ELSE Ok(U32ToLE(self.version)
               \o variable_length_integer(USize(Len(self.inputs))).val
               \o Flatten([i \in 1..Len(self.inputs) |->
                      OutpointBytes(self.inputs[i]) \o Script(i) \o self.inputs[i].sequence])
               \o variable_length_integer(USize(Len(self.outputs))).val
               \o OutputsBytes(self)
               \o U32ToLE(self.lock_time)
               \o <<sighash, 0, 0, 0>>)

\* BIP143 preimage: hashes of the outpoints and of the sequences, the
\* outpoint, script code, amount and sequence of input vin, the hash of
\* the outputs, lock_time and the sighash type
segwit_hash_preimage(self, vin, sighash) ==
    LET input == self.inputs[vin]
        script_code == IF input.outpoint.redeem_script.some
                       THEN input.outpoint.redeem_script
                       ELSE input.outpoint.script_pub_key
    IN IF ~input.outpoint.amount.some THEN Err("MissingOutpointAmount")
       ELSE IF ~script_code.some THEN Err("MissingOutpointScriptPublicKey")
       ELSE Ok(U32ToLE(self.version)
               \o checksum(Flatten([i \in 1..Len(self.inputs) |->
                      OutpointBytes(self.inputs[i])]))
               \o checksum(Flatten([i \in 1..Len(self.inputs) |-> self.inputs[i].sequence]))
               \o OutpointBytes(input)
               \o variable_length_integer(USize(Len(script_code.val))).val
               \o script_code.val
               \o LE64(input.outpoint.amount.val)
               \o input.sequence
               \o checksum(OutputsBytes(self))
               \o U32ToLE(self.lock_time)
               \o <<sighash, 0, 0, 0>>)

\* an address check that accepts every input
AddressIsValid_AnyAddress(input, private_key) == Ok(TRUE)

\* is the address of the input the signer's (for P2WSH: the script's)?
AddressIsValid(input, private_key) ==
    LET addr == input.outpoint.address.val
    IN With(IF addr.format = "P2WSH"
            THEN IF ~input.outpoint.redeem_script.some THEN Err("InvalidInputs")
                 ELSE p2wsh(input.outpoint.redeem_script.val)
            ELSE from_private_key(private_key, addr.format),
            LAMBDA c_address :
                IF ~c_address.ok THEN c_address ELSE Ok(addr = c_address.val))

\* the length-prefixed DER signature with the sighash byte
SignatureOf(preimage, input, private_key) ==
    With(SignatureDER(checksum(preimage), private_key.secret_key)
             \o <<input.sighash_code>>,
         LAMBDA der : variable_length_integer(USize(Len(der))).val \o der)

\* the public key without its length
PublicKeyOf_NoLength(format, private_key) ==
    serialize_compressed(to_public_key(private_key).public_key)

\* the length-prefixed public key
PublicKeyOf(format, private_key) ==
    With(to_public_key(private_key), LAMBDA public_key :
        With(IF format = "P2PKH" /\ ~public_key.compressed
             THEN serialize_uncompressed(public_key.public_key)
             ELSE serialize_compressed(public_key.public_key),
             LAMBDA bytes : <<Len(bytes) % 256>> \o bytes))

\* a witness stack with the extra data in front of the signatures
P2WSHWitnessField_DataFirst(current, signature, input_script) ==
    LET other == current.additional_witness.val
        signatures == IF other[2] THEN <<other[1], signature>>
                      ELSE <<signature, other[1]>>
        data == IF current.witness_script_data.some
                THEN <<<<Len(current.witness_script_data.val) % 256>>
                           \o current.witness_script_data.val>>
                ELSE <<>>
    IN data \o signatures
           \o <<variable_length_integer(USize(Len(input_script))).val \o input_script>>

\* the witness stack the P2WSH branch appends
P2WSHWitnessField(current, signature, input_script) ==
    LET other == current.additional_witness.val
        signatures == IF other[2] THEN <<other[1], signature>>
                      ELSE <<signature, other[1]>>
        data == IF current.witness_script_data.some
                THEN <<<<Len(current.witness_script_data.val) % 256>>
                           \o current.witness_script_data.val>>
                ELSE <<>>
    IN signatures \o data
           \o <<variable_length_integer(USize(Len(input_script))).val \o input_script>>

\* the input after the signer has filled it in
Signed(current, input, format, signature, public_key) ==
    CASE format = "P2PKH" ->
            Ok([current EXCEPT !.script_sig = signature \o public_key,
                               !.is_signed = TRUE])
      [] format = "P2WSH" ->
            IF ~input.outpoint.redeem_script.some THEN Err("InvalidInputs")
            ELSE IF ~current.additional_witness.some THEN Err("InvalidInputs")
            ELSE Ok([current EXCEPT
                        !.script_sig = <<>>,
                        !.witnesses = @ \o P2WSHWitnessField(current, signature,
                                              input.outpoint.redeem_script.val),
                        !.is_signed = TRUE])
      [] format = "P2SH_P2WPKH" ->
            IF ~input.outpoint.redeem_script.some THEN Err("InvalidInputs")
            ELSE Ok([current EXCEPT
                        !.script_sig =
                            variable_length_integer(
                                USize(Len(input.outpoint.redeem_script.val))).val
                            \o input.outpoint.redeem_script.val,
                        !.witnesses = @ \o <<signature, public_key>>,
                        !.is_signed = TRUE])
      [] format = "Bech32" ->
            Ok([current EXCEPT !.witnesses = @ \o <<signature, public_key>>,
                               !.is_signed = TRUE])

\* the guard of the signing branch, without the check of is_signed
ShouldSign_IgnoresSigned(address_is_valid, current) == address_is_valid

\* the guard of the signing branch
ShouldSign(address_is_valid, current) == address_is_valid /\ ~current.is_signed

\* a signer that never sets segwit_flag
SegwitFlag_Kept(format, segwit_flag) == segwit_flag

\* segwit_flag after an input of the format is signed: the three witness
\* branches set it, the P2PKH branch does not touch it
SegwitFlag(format, segwit_flag) == IF format = "P2PKH" THEN segwit_flag ELSE TRUE

\* one iteration of the loop of sign: input is self.parameters.inputs[vin],
\* transaction the clone that is being filled in
SignInput(transaction, input, vin, private_key) ==
    IF ~input.outpoint.address.some THEN Ok(transaction)
    ELSE LET format == input.outpoint.address.val.format
         IN With(AddressIsValid(input, private_key), LAMBDA address_is_valid :
            IF ~address_is_valid.ok THEN address_is_valid
            ELSE IF ~ShouldSign(address_is_valid.val, transaction.inputs[vin])
            THEN Ok(transaction)
            ELSE With(IF format = "P2PKH"
                      THEN p2pkh_hash_preimage(transaction, vin, input.sighash_code)
                      ELSE segwit_hash_preimage(transaction, vin, input.sighash_code),
                      LAMBDA preimage :
                IF ~preimage.ok THEN preimage
                ELSE With(SignatureOf(preimage.val, input, private_key),
                          LAMBDA signature :
                     With(Signed(transaction.inputs[vin], input, format, signature,
                                 PublicKeyOf(format, private_key)),
                          LAMBDA signed :
                              IF ~signed.ok THEN signed
                              ELSE Ok([transaction EXCEPT
                                          !.inputs[vin] = signed.val,
                                          !.segwit_flag = SegwitFlag(format, @)])))))

RECURSIVE SignFrom(_, _, _, _)
SignFrom(self, transaction, vin, private_key) ==
    IF vin > Len(self.inputs) THEN Ok(transaction)
    ELSE With(SignInput(transaction, self.inputs[vin], vin, private_key), LAMBDA next :
             IF ~next.ok THEN next ELSE SignFrom(self, next.val, vin + 1, private_key))

sign(self, private_key) == SignFrom(self, self, 1, private_key)

(***************************************************************************)
(* Transactions handed to the signer: inputs made by                       *)
(* BitcoinTransactionInput::new that spend from addresses of the keys and  *)
(* of a witness script, with the public fields additional_witness and      *)
(* witness_script_data set by the caller.                                  *)
(***************************************************************************)
MaxSpend == 2

KeyA == BitcoinPrivateKey(1, TRUE)

KeyB == BitcoinPrivateKey(2, TRUE)

KeyC == BitcoinPrivateKey(3, FALSE)

PrivateKeys == {KeyA, KeyB, KeyC}

WitnessScript == <<82, 33, 174>>

OtherScript == <<81>>

\* a signature supplied by the other party of a multi-signature script
CompanionSignature == <<3, 48, 99, 1>>

SpendFrom(addr, redeem_script, sighash) ==
    With(addr, LAMBDA from :
        With(redeem_script, LAMBDA script :
            BitcoinTransactionInput_new(Repeat(17, 31) \o <<18>>, <<0, 1>>, from,
                                        Some(U64(0, 0, 0, 1000)), script, None, None,
                                        sighash).val))

KeyInputs ==
    {SpendFrom(Some(from_private_key(k, f).val),
               IF f = "P2SH_P2WPKH" THEN Some(create_redeem_script(to_public_key(k)))
               ELSE None,
               IF f = "Bech32" THEN 131 ELSE SIG_ALL) :
        k \in {KeyA, KeyB}, f \in {"P2PKH", "P2SH_P2WPKH", "Bech32"}}
    \cup {SpendFrom(Some(from_private_key(KeyC, "P2PKH").val), None, SIG_ALL)}

ScriptInputs ==
    {[SpendFrom(Some(p2wsh(s).val), Some(WitnessScript), SIG_ALL) EXCEPT
         !.additional_witness = a, !.witness_script_data = d] :
        s \in {WitnessScript},
        a \in {None, Some(<<CompanionSignature, TRUE>>), Some(<<CompanionSignature, FALSE>>)},
        d \in {None, Some(<<9, 8>>)}}
    \cup {[SpendFrom(Some(p2wsh(OtherScript).val), Some(WitnessScript), SIG_ALL) EXCEPT
             !.additional_witness = Some(<<CompanionSignature, TRUE>>)]}

\* a P2WSH input whose redeem script the caller has removed, and an input
\* without address
BareInputs ==
    {[SpendFrom(Some(p2wsh(WitnessScript).val), Some(WitnessScript), SIG_ALL) EXCEPT
         !.outpoint.redeem_script = None,
         !.additional_witness = Some(<<CompanionSignature, TRUE>>)],
     SpendFrom(None, None, SIG_ALL)}

\* the inputs that occur in transactions of several inputs
CoreInputs ==
    {SpendFrom(Some(from_private_key(KeyA, "P2PKH").val), None, SIG_ALL),
     SpendFrom(Some(from_private_key(KeyB, "Bech32").val), None, 131),
     [SpendFrom(Some(p2wsh(WitnessScript).val), Some(WitnessScript), SIG_ALL) EXCEPT
         !.additional_witness = Some(<<CompanionSignature, FALSE>>)],
     SpendFrom(None, None, SIG_ALL)}

SpendInputs ==
    {<<i>> : i \in KeyInputs \cup ScriptInputs \cup BareInputs}
    \cup (SeqsUpTo(CoreInputs, MaxSpend) \ {<<>>})

Spends ==
    {Parameters(<<0, 2>>, i, <<[amount |-> U64(0, 0, 0, 900), script_pub_key |-> <<81>>]>>,
                <<0, 0>>, FALSE) : i \in SpendInputs}

InitSign ==
    /\ build = "release"
    /\ xprv = NoKey
    /\ address = NoAddress
    /\ tx = NoTransaction
    /\ call = Idle

\* BitcoinTransaction::new(&parameters) of a transaction to be signed
NewSpend(parameters) ==
    /\ call = Idle
    /\ tx = NoTransaction
    /\ call' = [op |-> "new", res |-> Ok(parameters)]
    /\ tx' = parameters
    /\ UNCHANGED <<build, xprv, address>>

\* tx = tx.sign(&private_key)?
Sign(private_key) ==
    /\ call = Idle
    /\ tx # NoTransaction
    /\ call' = [op |-> "sign", self |-> tx, key |-> private_key,
                res |-> sign(tx, private_key)]
    /\ tx' = IF call'.res.ok THEN call'.res.val ELSE tx
    /\ UNCHANGED <<build, xprv, address>>

NextSign ==
    \/ Return
    \/ \E parameters \in Spends : NewSpend(parameters)
    \/ \E private_key \in PrivateKeys : Sign(private_key)
    \/ \E granted \in BOOLEAN : ToTransactionBytes(granted)

SpecSign == InitSign /\ [][NextSign]_vars

(***************************************************************************)
(* Outpoints: Outpoint::new over the addresses the library hands out, the  *)
(* redeem scripts and the script_pub_keys a caller can supply.             *)
(***************************************************************************)
\* the Base58 text that from_str accepts with the format Bech32
MislabelledAddress == address_from_str(Mutated(from_private_key(KeyA, "P2PKH").val, 5)).val

OutpointAddresses ==
    {from_private_key(KeyA, f).val : f \in {"P2PKH", "P2SH_P2WPKH", "Bech32"}}
        \cup {p2wsh(WitnessScript).val, MislabelledAddress}

RedeemScripts ==
    {None, Some(WitnessScript), Some(create_redeem_script(to_public_key(KeyA)))}

\* a byte that is none of the opcodes and lengths Outpoint::new tests
OtherByte == 7

\* a script and the scripts that differ from it in the first byte, in the
\* second, in the last, in all three, and in the length
Variants(script) ==
    {script,
     [script EXCEPT ![1] = OtherByte],
     [script EXCEPT ![2] = OtherByte],
     [script EXCEPT ![Len(script)] = OtherByte],
     [script EXCEPT ![1] = OtherByte, ![2] = OtherByte, ![Len(script)] = OtherByte],
     Slice(script, 0, Len(script) - 1)}

ShortScripts == {<<>>, <<OP_DUP>>, <<OP_HASH160>>, <<0>>, <<OtherByte>>}

SuppliedScripts ==
    UNION {Variants(create_script_pub_key(a).val) :
               a \in OutpointAddresses \ {MislabelledAddress}}
        \cup ShortScripts

ScriptPubKeys == {None} \cup {Some(s) : s \in SuppliedScripts}

InitOutpoint ==
    /\ build = "release"
    /\ xprv = NoKey
    /\ address = NoAddress
    /\ tx = NoTransaction
    /\ call = Idle

\* Outpoint::new(reverse_transaction_id, 1, Some(addr), amount, redeem_script, script_pub_key)
NewOutpoint(addr, redeem_script, script_pub_key) ==
    /\ call = Idle
    /\ call' = [op |-> "outpoint_new", address |-> Some(addr),
                redeem_script |-> redeem_script, script_pub_key |-> script_pub_key,
                res |-> Outpoint_new(Repeat(17, 32), <<0, 1>>, Some(addr),
                                     Some(U64(0, 0, 0, 1000)), redeem_script,
                                     script_pub_key)]
    /\ UNCHANGED <<build, xprv, address, tx>>

\* Outpoint::new(reverse_transaction_id, 1, None, amount, redeem_script, script_pub_key)
NewOutpointWithoutAddress(redeem_script, script_pub_key) ==
    /\ call = Idle
    /\ call' = [op |-> "outpoint_new", address |-> None,
                redeem_script |-> redeem_script, script_pub_key |-> script_pub_key,
                res |-> Outpoint_new(Repeat(17, 32), <<0, 1>>, None,
                                     Some(U64(0, 0, 0, 1000)), redeem_script,
                                     script_pub_key)]
    /\ UNCHANGED <<build, xprv, address, tx>>

NextOutpoint ==
    \/ Return
    \/ \E addr \in OutpointAddresses, redeem_script \in RedeemScripts, script_pub_key \in ScriptPubKeys : NewOutpoint(addr, redeem_script, script_pub_key)
    \/ \E redeem_script \in RedeemScripts, script_pub_key \in ScriptPubKeys : NewOutpointWithoutAddress(redeem_script, script_pub_key)

SpecOutpoint == InitOutpoint /\ [][NextOutpoint]_vars

(***************************************************************************)
(* Amounts: BitcoinAmount(pub i64) as four 16-bit limbs in two's           *)
(* complement.  An i64 overflow aborts a debug build and wraps in a        *)
(* release build.                                                          *)
(***************************************************************************)
IsNegative(a) == a[1] >= 32768

wrapping_neg(a) == wrapping_add(BitNot(a), U64(0, 0, 0, 0), 1)

\* the result of an i64 operation that has overflowed or not
Arithmetic(bld, overflowed, wrapped) ==
    IF overflowed /\ bld = "debug" THEN Panic ELSE Ok(wrapped)

\* a + b on i64
i64_add(bld, a, b) ==
    With(wrapping_add(a, b, 0), LAMBDA sum :
        Arithmetic(bld, IsNegative(a) = IsNegative(b) /\ IsNegative(sum) # IsNegative(a),
                   sum))

\* a - b on i64
i64_sub(bld, a, b) ==
    With(wrapping_add(a, BitNot(b), 1), LAMBDA difference :
        Arithmetic(bld,
                   IsNegative(a) # IsNegative(b) /\ IsNegative(difference) # IsNegative(a),
                   difference))

\* little-endian limbs of magnitude * 10^exp, as many as the product needs
RECURSIVE TimesPow10(_, _)
TimesPow10(limbs, exp) ==
    IF exp = 0 THEN limbs ELSE TimesPow10(MulAdd(limbs, 1, 0, 10, 65536), exp - 1)

\* the exact product value * 10^exp: its sign, whether it leaves i64, and
\* its low 64 bits
Product(value, exp) ==
    LET negative == IsNegative(value)
        limbs == TimesPow10(Reverse(IF negative THEN wrapping_neg(value) ELSE value), exp)
        L(i) == IF i <= Len(limbs) THEN limbs[i] ELSE 0
        low == U64(L(4), L(3), L(2), L(1))
        high == \E i \in 5..Len(limbs) : limbs[i] # 0
    IN [overflowed |-> \/ high
                       \/ ~negative /\ L(4) >= 32768
                       \/ negative /\ IsNegative(low) /\ low # U64(32768, 0, 0, 0),
        wrapped |-> IF negative THEN wrapping_neg(low) ELSE low]

\* value * 10_i64.pow(exp) on i64
i64_mul_pow10(bld, value, exp) ==
    With(Product(value, exp), LAMBDA product :
        Arithmetic(bld, product.overflowed, product.wrapped))

\* from_satoshi of the result of an i64 operation
FromComputed(satoshis) ==
    IF ~satoshis.ok THEN satoshis ELSE from_satoshi(satoshis.val)

\* Denomination::precision
precision(denomination) ==
    CASE denomination = "Satoshi" -> 0
      [] denomination = "MicroBit" -> 2
      [] denomination = "MilliBit" -> 5
      [] denomination = "CentiBit" -> 6
      [] denomination = "DeciBit" -> 7
      [] denomination = "Bitcoin" -> 8

\* 10_i64.pow(2)
Pow10_2 == U64(0, 0, 0, 100)

from_ubtc(bld, ubtc_value) == FromComputed(i64_add(bld, ubtc_value, Pow10_2))

from_mbtc(bld, mbtc_value) ==
    FromComputed(i64_mul_pow10(bld, mbtc_value, precision("MilliBit")))

from_cbtc(bld, cbtc_value) ==
    FromComputed(i64_mul_pow10(bld, cbtc_value, precision("CentiBit")))

from_dbtc(bld, dbtc_value) ==
    FromComputed(i64_mul_pow10(bld, dbtc_value, precision("DeciBit")))

from_btc(bld, btc_value) ==
    FromComputed(i64_mul_pow10(bld, btc_value, precision("Bitcoin")))

BitcoinAmount_add(bld, self, b) == FromComputed(i64_add(bld, self, b))

BitcoinAmount_sub(bld, self, b) == FromComputed(i64_sub(bld, self, b))

\* values of i64 around zero, around the bounds of an amount in each
\* denomination, and at the ends of i64
I64_MAX == U64(32767, 65535, 65535, 65535)

I64_MIN == U64(32768, 0, 0, 0)

AmountValues ==
    {U64(0, 0, 0, 0), U64(0, 0, 0, 1), U64(65535, 65535, 65535, 65535),
     U64(0, 0, 0, 100), U64(0, 0, 320, 28480), U64(0, 0, 320, 28481),
     U64(65535, 65535, 65215, 37056),
     MAX_COINS, MinusMAX_COINS, wrapping_add(MAX_COINS, U64(0, 0, 0, 0), 1),
     U64(256, 0, 0, 0), U64(2048, 0, 0, 0), I64_MAX, I64_MIN}

Denominations == {"MicroBit", "MilliBit", "CentiBit", "DeciBit", "Bitcoin"}

InitAmount ==
    /\ build \in {"debug", "release"}
    /\ xprv = NoKey
    /\ address = NoAddress
    /\ tx = NoTransaction
    /\ call = Idle

\* BitcoinAmount::from_satoshi(satoshis)
FromSatoshi(satoshis) ==
    /\ call = Idle
    /\ call' = [op |-> "from_satoshi", value |-> satoshis, res |-> from_satoshi(satoshis)]
    /\ UNCHANGED <<build, xprv, address, tx>>

\* BitcoinAmount::from_ubtc(value), from_mbtc, from_cbtc, from_dbtc, from_btc
FromDenomination(denomination, value) ==
    /\ call = Idle
    /\ call' = [op |-> "from_denomination", denomination |-> denomination,
                value |-> value,
                res |-> CASE denomination = "MicroBit" -> from_ubtc(build, value)
                          [] denomination = "MilliBit" -> from_mbtc(build, value)
                          [] denomination = "CentiBit" -> from_cbtc(build, value)
                          [] denomination = "DeciBit" -> from_dbtc(build, value)
                          [] denomination = "Bitcoin" -> from_btc(build, value)]
    /\ UNCHANGED <<build, xprv, address, tx>>

\* BitcoinAmount(a).add(BitcoinAmount(b))
AddAmounts(a, b) ==
    /\ call = Idle
    /\ call' = [op |-> "add", self |-> a, b |-> b, res |-> BitcoinAmount_add(build, a, b)]
    /\ UNCHANGED <<build, xprv, address, tx>>

\* BitcoinAmount(a).sub(BitcoinAmount(b))
SubAmounts(a, b) ==
    /\ call = Idle
    /\ call' = [op |-> "sub", self |-> a, b |-> b, res |-> BitcoinAmount_sub(build, a, b)]
    /\ UNCHANGED <<build, xprv, address, tx>>

NextAmount ==
    \/ Return
    \/ \E satoshis \in AmountValues : FromSatoshi(satoshis)
    \/ \E denomination \in Denominations, value \in AmountValues : FromDenomination(denomination, value)
    \/ \E a \in AmountValues, b \in AmountValues : AddAmounts(a, b)
    \/ \E a \in AmountValues, b \in AmountValues : SubAmounts(a, b)

SpecAmount == InitAmount /\ [][NextAmount]_vars

(***************************************************************************)
(* Child indices and derivation paths as text.  A text is a sequence of    *)
(* ASCII codes; a u32 is a pair of 16-bit limbs, most significant first.   *)
(***************************************************************************)
\* ChildIndex::normal(index)
ChildIndex_normal(index) ==
    IF index[1] < 32768 THEN Ok(Normal(index[1] * 65536 + index[2]))
    ELSE Err("InvalidChildNumber")

\* ChildIndex::hardened(index)
ChildIndex_hardened(index) ==
    IF index[1] < 32768 THEN Ok(Normal(index[1] * 65536 + index[2]))
    ELSE Err("InvalidChildNumber")

\* ChildIndex::from(number)
ChildIndex_from_u32(number) ==
    IF number[1] >= 32768 THEN Hardened((number[1] - 32768) * 65536 + number[2])
    ELSE Normal(number[1] * 65536 + number[2])

\* u32::from(index), for numbers below 2^31
u32_from_ChildIndex(index) ==
    IF index.hardened
    THEN <<(index.number \div 65536) + 32768, index.number % 65536>>
    ELSE <<index.number \div 65536, index.number % 65536>>

\* str::parse::<u32>: an optional plus sign and decimal digits, no overflow
parse_u32(inp) ==
    LET digits == IF Len(inp) > 0 /\ inp[1] = 43 THEN Tail(inp) ELSE inp
    IN IF Len(digits) = 0 \/ \E i \in 1..Len(digits) : digits[i] \notin 48..57
       THEN Err("InvalidChildNumberFormat")
       ELSE With(Convert([i \in 1..Len(digits) |-> digits[i] - 48], 1, <<>>, 10, 65536),
                 LAMBDA limbs :
                     IF Len(limbs) > 2 THEN Err("InvalidChildNumberFormat")
                     ELSE Ok(<<IF Len(limbs) = 2 THEN limbs[2] ELSE 0,
                               IF Len(limbs) >= 1 THEN limbs[1] ELSE 0>>))

\* <ChildIndex as FromStr>::from_str(inp)
ChildIndex_from_str(inp) ==
    IF Len(inp) > 0 /\ inp[Len(inp)] \in {39, 104}
    THEN With(parse_u32(Slice(inp, 0, Len(inp) - 1)), LAMBDA index :
             IF ~index.ok THEN index ELSE ChildIndex_hardened(index.val))
    ELSE With(parse_u32(inp), LAMBDA index :
             IF ~index.ok THEN index ELSE ChildIndex_normal(index.val))

\* the decimal digits of a number
RECURSIVE Decimal(_)
Decimal(n) == IF n < 10 THEN <<48 + n>> ELSE Decimal(n \div 10) \o <<48 + (n % 10)>>

\* <ChildIndex as Display>::fmt
ChildIndex_to_string(index) ==
    IF index.hardened THEN Decimal(index.number) \o <<39>> ELSE Decimal(index.number)

\* str::split(separator), for a separator of one character
RECURSIVE Split(_, _, _)
Split(text, separator, from) ==
    IF \A i \in (from + 1)..Len(text) : text[i] # separator
    THEN <<Slice(text, from, Len(text))>>
    ELSE With(CHOOSE i \in (from + 1)..Len(text) :
                  text[i] = separator /\ \A j \in (from + 1)..(i - 1) : text[j] # separator,
              LAMBDA found : <<Slice(text, from, found - 1)>>
                                 \o Split(text, separator, found))

\* parts.map(str::parse).collect(): the indices, or the first error
RECURSIVE ParseParts(_, _)
ParseParts(parts, i) ==
    IF i > Len(parts) THEN Ok(<<>>)
    ELSE With(ChildIndex_from_str(parts[i]), LAMBDA index :
             IF ~index.ok THEN index
             ELSE With(ParseParts(parts, i + 1), LAMBDA others :
                      IF ~others.ok THEN others ELSE Ok(<<index.val>> \o others.val)))

\* BitcoinDerivationPath::from_vec(path)
from_vec(path) ==
    IF Len(path) = 5 /\ path[2] = HD_COIN_TYPE /\ is_hardened(path[3])
           /\ is_normal(path[4]) /\ is_normal(path[5]) /\ path[1] = Hardened(44)
    THEN Ok(BIP44(<<path[3], path[4], path[5]>>))
    ELSE IF Len(path) = 5 /\ path[2] = HD_COIN_TYPE /\ is_hardened(path[3])
           /\ is_normal(path[4]) /\ is_normal(path[5]) /\ path[1] = Hardened(49)
    THEN Ok(BIP49(<<path[3], path[4], path[5]>>))
    ELSE Ok(BIP32(path))

\* <BitcoinDerivationPath as FromStr>::from_str(path)
derivation_path_from_str(path) ==
    With(Split(path, 47, 0), LAMBDA parts :
        IF parts[1] # <<109>> THEN Err("InvalidDerivationPath")
        ELSE With(ParseParts(parts, 2), LAMBDA indices :
                 IF ~indices.ok THEN indices ELSE from_vec(indices.val)))

\* numbers below 2^31: the small ones and some around the limb boundaries
MaxChild == 20

ChildNumbers == 0..MaxChild \cup {44, 49, 99, 100, 255, 256, 65535, 65536, 1000000, 2147483646, 2147483647}

ChildIndices == {Normal(n) : n \in ChildNumbers} \cup {Hardened(n) : n \in ChildNumbers}

\* "" "'" "h" "x" "1x" "+5" "-1" "44h" "0'" "00044'" " 1" "2147483647'" "2147483648" "2147483648'" "4294967295" "4294967296" "4294967296'" "+" "1/"
ChildTexts ==
    {<<>>,
     <<39>>,
     <<104>>,
     <<120>>,
     <<49, 120>>,
     <<43, 53>>,
     <<45, 49>>,
     <<52, 52, 104>>,
     <<48, 39>>,
     <<48, 48, 48, 52, 52, 39>>,
     <<32, 49>>,
     <<50, 49, 52, 55, 52, 56, 51, 54, 52, 55, 39>>,
     <<50, 49, 52, 55, 52, 56, 51, 54, 52, 56>>,
     <<50, 49, 52, 55, 52, 56, 51, 54, 52, 56, 39>>,
     <<52, 50, 57, 52, 57, 54, 55, 50, 57, 53>>,
     <<52, 50, 57, 52, 57, 54, 55, 50, 57, 54>>,
     <<52, 50, 57, 52, 57, 54, 55, 50, 57, 54, 39>>,
     <<43>>,
     <<49, 47>>}

\* "m/44'/0'/0'/0/0" "m" "m/0" "n/0" "m/49'/0'/1'/0/3" "m/44h/0h/0h/0/0" "m/" "m/0/x" "/m" "m/44'/0'/0/0/0" "m/1/2" "m/2147483648" ""
PathTexts ==
    {<<109, 47, 52, 52, 39, 47, 48, 39, 47, 48, 39, 47, 48, 47, 48>>,
     <<109>>,
     <<109, 47, 48>>,
     <<110, 47, 48>>,
     <<109, 47, 52, 57, 39, 47, 48, 39, 47, 49, 39, 47, 48, 47, 51>>,
     <<109, 47, 52, 52, 104, 47, 48, 104, 47, 48, 104, 47, 48, 47, 48>>,
     <<109, 47>>,
     <<109, 47, 48, 47, 120>>,
     <<47, 109>>,
     <<109, 47, 52, 52, 39, 47, 48, 39, 47, 48, 47, 48, 47, 48>>,
     <<109, 47, 49, 47, 50>>,
     <<109, 47, 50, 49, 52, 55, 52, 56, 51, 54, 52, 56>>,
     <<>>}

InitChildIndex ==
    /\ build = "release"
    /\ xprv = NoKey
    /\ address = NoAddress
    /\ tx = NoTransaction
    /\ call = Idle

\* ChildIndex::from_str(text)
ParseChildIndex(text) ==
    /\ call = Idle
    /\ call' = [op |-> "child_index_from_str", text |-> text, res |-> ChildIndex_from_str(text)]
    /\ UNCHANGED <<build, xprv, address, tx>>

\* ChildIndex::from_str(&index.to_string())
DisplayParse(index) ==
    /\ call = Idle
    /\ call' = [op |-> "display_parse", index |-> index,
                text |-> ChildIndex_to_string(index),
                res |-> ChildIndex_from_str(ChildIndex_to_string(index))]
    /\ UNCHANGED <<build, xprv, address, tx>>

\* ChildIndex::from(u32::from(index))
ConvertAndBack(index) ==
    /\ call = Idle
    /\ call' = [op |-> "u32_and_back", index |-> index,
                number |-> u32_from_ChildIndex(index),
                res |-> ChildIndex_from_u32(u32_from_ChildIndex(index))]
    /\ UNCHANGED <<build, xprv, address, tx>>

\* BitcoinDerivationPath::<Mainnet>::from_str(text)
ParsePath(text) ==
    /\ call = Idle
    /\ call' = [op |-> "path_from_str", text |-> text, res |-> derivation_path_from_str(text)]
    /\ UNCHANGED <<build, xprv, address, tx>>

NextChildIndex ==
    \/ Return
    \/ \E text \in ChildTexts : ParseChildIndex(text)
    \/ \E index \in ChildIndices : DisplayParse(index)
    \/ \E index \in ChildIndices : ConvertAndBack(index)
    \/ \E text \in PathTexts : ParsePath(text)

SpecChildIndex == InitChildIndex /\ [][NextChildIndex]_vars

(***************************************************************************)
(* Mnemonics.  The word table gyu_model::wordlist::bip39::ENGLISH is not   *)
(* part of the sources: it is taken as 2048 distinct words, here of three  *)
(* letters each.  PBKDF2 is abstracted as a digest of the requested size.  *)
(***************************************************************************)
PBKDF2_ROUNDS == 64

PBKDF2_BYTES == 2048

WordAt(index) == <<97 + (index \div 256), 97 + ((index \div 16) % 16), 97 + (index % 16)>>

\* BitcoinWordlist::get_all() : the lines of the word table
WORDLIST == [i \in 1..2048 |-> WordAt(i - 1)]

\* BitcoinWordlist::get_index(word)
get_index(word) ==
    IF \E i \in 1..2048 : WORDLIST[i] = word
    THEN Ok((CHOOSE i \in 1..2048 : WORDLIST[i] = word) - 1)
    ELSE Err("InvalidWord")

\* the indices of the words, or the first error
RECURSIVE WordIndices(_, _)
WordIndices(words, i) ==
    IF i > Len(words) THEN Ok(<<>>)
    ELSE With(get_index(words[i]), LAMBDA index :
             IF ~index.ok THEN index
             ELSE With(WordIndices(words, i + 1), LAMBDA others :
                      IF ~others.ok THEN others ELSE Ok(<<index.val>> \o others.val)))

\* bit k (0-based) of the bit vector made of the low 11 bits of each index
IndexBit(indices, k) == (indices[(k \div 11) + 1] \div 2^(10 - (k % 11))) % 2

\* the first `length` bits of that vector, as bytes
EntropyOfIndices(indices, length) ==
    [j \in 1..(length \div 8) |->
        IndexBit(indices, 8 * (j - 1)) * 128 + IndexBit(indices, 8 * (j - 1) + 1) * 64
        + IndexBit(indices, 8 * (j - 1) + 2) * 32 + IndexBit(indices, 8 * (j - 1) + 3) * 16
        + IndexBit(indices, 8 * (j - 1) + 4) * 8 + IndexBit(indices, 8 * (j - 1) + 5) * 4
        + IndexBit(indices, 8 * (j - 1) + 6) * 2 + IndexBit(indices, 8 * (j - 1) + 7)]

\* phrase.join(" ")
RECURSIVE Join(_, _)
Join(words, i) ==
    IF i > Len(words) THEN <<>>
    ELSE IF i = Len(words) THEN words[i]
    ELSE words[i] \o <<32>> \o Join(words, i + 1)

\* bit k of the entropy followed by the leading bits of the first hash byte
EncodingBit(entropy, hash_0, k) ==
    IF k < 8 * Len(entropy) THEN BitAt(entropy, 8, k)
    ELSE BitAt(<<hash_0>>, 8, k - 8 * Len(entropy))

\* the 11-bit chunks of the encoding, as numbers
EncodingIndices(entropy, hash_0, length) ==
    [w \in 1..length |->
        LET B(i) == EncodingBit(entropy, hash_0, 11 * (w - 1) + i) * 2^(10 - i)
        IN B(0) + B(1) + B(2) + B(3) + B(4) + B(5) + B(6) + B(7) + B(8) + B(9) + B(10)]

\* BitcoinMnemonic::to_phrase
to_phrase(self) ==
    IF Len(self.entropy) \notin {16, 20, 24, 28, 32} THEN Err("InvalidEntropyLength")
    ELSE With(EncodingIndices(self.entropy, sha256(self.entropy)[1],
                              (Len(self.entropy) * 3) \div 4),
              LAMBDA indices :
                  Ok(Join([w \in 1..Len(indices) |-> WORDLIST[indices[w] + 1]], 1)))

\* phrase == mnemonic.to_phrase()?
SamePhrase_Any(phrase, encoded) == TRUE

SamePhrase(phrase, encoded) == phrase = encoded

\* BitcoinMnemonic::from_phrase
from_phrase(phrase) ==
    With(Split(phrase, 32, 0), LAMBDA mnemonic :
        IF Len(mnemonic) \notin {12, 15, 18, 21, 24} THEN Err("InvalidWordCount")
        ELSE With(WordIndices(mnemonic, 1), LAMBDA indices :
            IF ~indices.ok THEN indices
            ELSE With([entropy |-> EntropyOfIndices(indices.val, (Len(mnemonic) * 32) \div 3)],
                      LAMBDA decoded :
                With(to_phrase(decoded), LAMBDA encoded :
                    IF ~encoded.ok THEN encoded
                    ELSE IF SamePhrase(phrase, encoded.val) THEN Ok(decoded)
                    ELSE Err("InvalidPhrase")))))

\* pbkdf2::<Hmac<Sha512>>(password, salt, rounds, &mut output)
pbkdf2(password, salt, rounds, size) ==
    Digest(5, <<rounds % 256, Len(salt)>> \o salt \o password, size)

\* "mnemonic"
MnemonicSalt == <<109, 110, 101, 109, 111, 110, 105, 99>>

\* BitcoinMnemonic::to_seed
to_seed(self, password) ==
    With(to_phrase(self), LAMBDA phrase :
        IF ~phrase.ok THEN phrase
        ELSE Ok(pbkdf2(phrase.val,
                       MnemonicSalt \o (IF password.some THEN password.val ELSE <<>>),
                       PBKDF2_ROUNDS, PBKDF2_BYTES)))

\* entropies of each length: all zero, and patterns of varying bytes
MaxPattern == 3

EntropyLengths == {16, 20, 24, 28, 32}

Entropies ==
    {[i \in 1..n |-> (37 * k * i + 11 * k) % 256] : n \in EntropyLengths, k \in 0..MaxPattern}

\* the words of the phrase of an entropy
WordsOf(entropy) == Split(to_phrase([entropy |-> entropy]).val, 32, 0)

\* the word whose index is that of `word` plus `change`
Changed(word, change) == WORDLIST[((get_index(word).val + change) % 2048) + 1]

\* changes of the final word: in its checksum bits, in its entropy bits,
\* and in both
FinalChanges == {1, 2, 3, 256, 257, 1024}

\* phrases that differ from a valid one: the final word changed, the first
\* two words exchanged, a word dropped, a word not in the table, an
\* empty word
Tampered(entropy) ==
    With(WordsOf(entropy), LAMBDA words :
        {Join([words EXCEPT ![Len(words)] = Changed(@, c)], 1) : c \in FinalChanges}
            \cup {Join([words EXCEPT ![1] = words[2], ![2] = words[1]], 1),
                  Join(Slice(words, 0, Len(words) - 1), 1),
                  Join([words EXCEPT ![1] = <<122, 122, 122>>], 1),
                  Join([words EXCEPT ![1] = <<>>], 1),
                  Join(<<words[1], <<>>>> \o Slice(words, 2, Len(words)), 1)})

Passwords == {None, Some(<<>>), Some(<<84, 82, 69, 90, 79, 82>>)}

InitMnemonic ==
    /\ build = "release"
    /\ xprv = NoKey
    /\ address = NoAddress
    /\ tx = NoTransaction
    /\ call = Idle

\* BitcoinMnemonic::from_phrase(&mnemonic.to_phrase()?) for a mnemonic of
\* the entropy
PhraseAndBack(entropy) ==
    /\ call = Idle
    /\ call' = With(to_phrase([entropy |-> entropy]), LAMBDA phrase :
                   [op |-> "phrase_and_back", entropy |-> entropy, phrase |-> phrase,
                    res |-> IF phrase.ok THEN from_phrase(phrase.val) ELSE phrase])
    /\ UNCHANGED <<build, xprv, address, tx>>

\* BitcoinMnemonic::from_phrase(phrase)
FromPhrase(phrase) ==
    /\ call = Idle
    /\ call' = [op |-> "from_phrase", phrase |-> phrase, res |-> from_phrase(phrase)]
    /\ UNCHANGED <<build, xprv, address, tx>>

\* mnemonic.to_seed(password) for a mnemonic of the entropy
ToSeed(entropy, password) ==
    /\ call = Idle
    /\ call' = [op |-> "to_seed", entropy |-> entropy, password |-> password,
                res |-> to_seed([entropy |-> entropy], password)]
    /\ UNCHANGED <<build, xprv, address, tx>>

NextMnemonic ==
    \/ Return
    \/ \E entropy \in Entropies : PhraseAndBack(entropy)
    \/ \E entropy \in Entropies : \E phrase \in Tampered(entropy) : FromPhrase(phrase)
    \/ \E entropy \in Entropies, password \in Passwords : ToSeed(entropy, password)

SpecMnemonic == InitMnemonic /\ [][NextMnemonic]_vars

(***************************************************************************)
(* Properties of the key tree                                              *)
(***************************************************************************)
DeriveCall == call.op \in {"derive_private", "derive_public"}

\* the child indices of the path of the recorded derive call
CallIndices == to_vec(call.path).val

\* C1: derive from depth d over n child indices returns a key of depth
\* d + n <= 255 or fails with a typed error; the u8 depth never overflows.
C1_DepthNeverOverflows ==
    (DeriveCall /\ to_vec(call.path).ok) =>
        LET d == call.self.depth
            n == Len(CallIndices)
        IN /\ call.res.ok => (call.res.val.depth = d + n /\ d + n <= 255)
           /\ ~call.res.ok => call.res.err # "panic"
           /\ d + n > 255 => ~call.res.ok

\* the fields in which an extended public key is compared
SameNode(a, b) ==
    /\ a.depth = b.depth
    /\ a.parent_fingerprint = b.parent_fingerprint
    /\ a.child_index = b.child_index
    /\ a.chain_code = b.chain_code
    /\ a.public_key = b.public_key

NormalOnly(vec) == \A i \in 1..Len(vec) : is_normal(vec[i])

\* C2: for a path of Normal indices of any length, deriving from the
\* public counterpart of a private key gives the public counterpart of the
\* private derivation.
C2_PublicMatchesPrivate ==
    (call.op = "derive_public" /\ to_vec(call.path).ok /\ NormalOnly(CallIndices)) =>
        LET private == derive_private(xprv, call.path, build)
        IN /\ call.res.ok = private.ok
           /\ call.res.ok => SameNode(call.res.val, to_extended_public_key(private.val))

\* derive(node, [i1]) followed by derive(_, [i2]), on the branch of the call
DeriveOn(op, node, path, bld) ==
    IF op = "derive_private" THEN derive_private(node, path, bld)
    ELSE derive_public(node, path, bld)

TwoSteps(op, node, i1, i2, bld) ==
    LET first == DeriveOn(op, node, BIP32(<<i1>>), bld)
    IN IF first.ok THEN DeriveOn(op, first.val, BIP32(<<i2>>), bld) ELSE first

\* C3: derivation is a left fold: derive(node, [i1, i2]) equals
\* derive(derive(node, [i1]), [i2]) on the private and the public branch.
C3_LeftFold ==
    (DeriveCall /\ call.path.kind = "BIP32" /\ Len(call.path.path) = 2) =>
        call.res = TwoSteps(call.op, call.self, call.path.path[1], call.path.path[2], build)

\* position of the first hardened index of a path that has one
FirstHardened(vec) ==
    CHOOSE j \in 1..Len(vec) : is_hardened(vec[j]) /\ \A i \in 1..(j - 1) : is_normal(vec[i])

PublicCallWithHardened ==
    /\ call.op = "derive_public"
    /\ call.self.depth < 255
    /\ to_vec(call.path).ok
    /\ ~NormalOnly(CallIndices)

\* the tweak of a Normal index is accepted by the curve library
TweakAccepted(self, index) ==
    LET hmac == HmacSha512(chain_code_bytes(self.chain_code),
                           serialize_compressed(self.public_key) \o ChildIndexToBE(index))
    IN ValidScalar(hmac.left) /\ PublicTweakAdd(self.public_key, hmac.left).ok

\* C4 as stated: a public derivation below depth 255 over a path with a
\* Hardened index at any position fails with InvalidChildNumber.
C4_HardenedAlwaysInvalidChildNumber ==
    PublicCallWithHardened =>
        (~call.res.ok /\ call.res.err = "InvalidChildNumber")

\* the Normal indices before the first Hardened index at which the loop
\* stops: those whose tweak the curve library rejects and, in a debug
\* build, the one whose step is taken at depth 255
RefusedBefore(j) == {i \in 1..(j - 1) : ~TweakAccepted(call.self, CallIndices[i])}

OverflowsBefore(j) == {i \in 1..(j - 1) : (call.self.depth + (i - 1)) % 256 = 255}

StopsBefore(j) == RefusedBefore(j) \cup (IF build = "debug" THEN OverflowsBefore(j) ELSE {})

\* C4 amended: a public derivation below depth 255 over a path whose index
\* list is formed and holds a Hardened index never returns a key.  It fails
\* with InvalidChildNumber exactly when the loop reaches the first Hardened
\* index.  Otherwise it ends at the first Normal index before it that
\* stops the loop: with the secp256k1 error when the tweak of that index is
\* rejected, and with the overflow panic when, in a debug build, its step
\* is taken at depth 255 with an accepted tweak.  In a release build the
\* depth wraps, the loop goes on and the failure is InvalidChildNumber.
C4_HardenedNeverDerives ==
    PublicCallWithHardened =>
        LET j == FirstHardened(CallIndices)
            stops == StopsBefore(j)
            first == CHOOSE i \in stops : \A k \in stops : i <= k
        IN /\ ~call.res.ok
           /\ call.res.err = IF stops = {} THEN "InvalidChildNumber"
                             ELSE IF first \in RefusedBefore(j) THEN "secp256k1"
                             ELSE "panic"

\* a Hardened index behind a Normal one was reached and rejected
C4_Witness ==
    /\ PublicCallWithHardened
    /\ FirstHardened(CallIndices) > 1
    /\ ~call.res.ok
    /\ call.res.err = "InvalidChildNumber"

(***************************************************************************)
(* Properties of the extended private key text                             *)
(***************************************************************************)
\* C5: a key made by new_master or derive with format P2PKH or P2SH_P2WPKH
\* is parsed back from its Base58Check text, equal in every field.
C5_KeyRoundTrip ==
    (call.op = "render_parse" /\ call.self.format \in {"P2PKH", "P2SH_P2WPKH"}) =>
        (call.res.ok /\ call.res.val = call.self)

ParseCall == call.op = "from_str" /\ from_base58(call.text).ok

ParseData == from_base58(call.text).val

ChecksumMatches(data) == Slice(data, 78, 82) = Slice(checksum(Slice(data, 0, 78)), 0, 4)

\* the version bytes are recognised for the network
VersionRecognised(data) == Mainnet_from_extended_private_key_version_bytes(data).ok

\* the version bytes are accepted by the network table and the format table
VersionAccepted(data) ==
    /\ Mainnet_from_extended_private_key_version_bytes(data).ok
    /\ BitcoinFormat_from_extended_private_key_version_bytes(data).ok

\* C6 as stated: a key is returned only for 82 bytes with a matching
\* checksum and a recognised version; another length fails with
\* InvalidByteLength, an unrecognised version with InvalidVersionBytes, a
\* checksum mismatch with InvalidChecksum.
C6_ParseErrorsAsStated ==
    ParseCall =>
        LET data == ParseData
        IN /\ call.res.ok =>
                (Len(data) = 82 /\ ChecksumMatches(data) /\ VersionRecognised(data))
           /\ Len(data) # 82 => (~call.res.ok /\ call.res.err = "InvalidByteLength")
           /\ (Len(data) = 82 /\ ~VersionRecognised(data)) =>
                (~call.res.ok /\ call.res.err = "InvalidVersionBytes")
           /\ (Len(data) = 82 /\ VersionRecognised(data) /\ ~ChecksumMatches(data)) =>
                (~call.res.ok /\ call.res.err = "InvalidChecksum")

\* C6 amended: the checks apply in the order length, version (network
\* table, then format table), secret scalar, checksum; each error is
\* reported when the earlier checks pass.
C6_ParseErrorsInOrder ==
    ParseCall =>
        LET data == ParseData
        IN /\ call.res.ok =>
                (Len(data) = 82 /\ ChecksumMatches(data) /\ VersionAccepted(data))
           /\ Len(data) # 82 => (~call.res.ok /\ call.res.err = "InvalidByteLength")
           /\ (Len(data) = 82 /\ ~VersionAccepted(data)) =>
                (~call.res.ok /\ call.res.err = "InvalidVersionBytes")
           /\ (Len(data) = 82 /\ VersionAccepted(data) /\ ~SecretParse(Slice(data, 46, 78)).ok) =>
                (~call.res.ok /\ call.res.err = "secp256k1")
           /\ (/\ Len(data) = 82
               /\ VersionAccepted(data)
               /\ SecretParse(Slice(data, 46, 78)).ok
               /\ ~ChecksumMatches(data)) =>
                (~call.res.ok /\ call.res.err = "InvalidChecksum")

\* a text of 82 bytes with an accepted version and a valid scalar was
\* rejected for its checksum
C6_Witness ==
    /\ ParseCall
    /\ Len(ParseData) = 82
    /\ VersionAccepted(ParseData)
    /\ ~ChecksumMatches(ParseData)
    /\ ~call.res.ok
    /\ call.res.err = "InvalidChecksum"

(***************************************************************************)
(* Properties of WitnessProgram and of the variable-length integer         *)
(***************************************************************************)
\* the outcome the claim prescribes for WitnessProgram::new(b)
WitnessExpected(b) ==
    IF Len(b) < 2 THEN "InvalidProgramLength"
    ELSE IF b[2] # Len(b) - 2 THEN "MismatchedProgramLength"
    ELSE IF ~(Len(b) - 2 \in 2..40) THEN "InvalidProgramLength"
    ELSE IF ~(b[1] <= 16) THEN "InvalidVersion"
    ELSE IF b[1] = 0 /\ ~(Len(b) - 2 \in {20, 32}) THEN "InvalidProgramLengthForVersion"
    ELSE "Ok"

\* C9: WitnessProgram::new succeeds exactly on a well-formed program and
\* otherwise fails with the first applicable error, in the order
\* MismatchedProgramLength, InvalidProgramLength, InvalidVersion,
\* InvalidProgramLengthForVersion; fewer than 2 bytes give
\* InvalidProgramLength and no out-of-range index.
C9_WitnessProgramNew ==
    call.op = "witness_program_new" =>
        LET b == call.bytes
        IN /\ call.res.ok <=> WitnessExpected(b) = "Ok"
           /\ call.res.ok =>
                (call.res.val.version = b[1] /\ call.res.val.program = Slice(b, 2, Len(b)))
           /\ ~call.res.ok => call.res.err = WitnessExpected(b)

\* a version-0 program of a length other than 20 and 32 was rejected for
\* its length, after the other three checks passed
C9_Witness ==
    /\ call.op = "witness_program_new"
    /\ Len(call.bytes) = 12
    /\ call.bytes[1] = 0
    /\ ~call.res.ok
    /\ call.res.err = "InvalidProgramLengthForVersion"

\* the number of bytes the claim prescribes for the encoding of a value
VarintSize(value) ==
    IF AtMost252(value) THEN 1
    ELSE IF AtMost65535(value) THEN 3
    ELSE IF value[1] = 0 /\ value[2] = 0 THEN 5
    ELSE 9

\* C10: reading the encoding of any u64 returns the value and consumes
\* exactly the bytes written: 1, 3, 5 (marker 0xfe) or 9 (marker 0xff).
C10_VarintRoundTrip ==
    call.op = "write_read_varint" =>
        /\ Len(call.bytes) = VarintSize(call.value)
        /\ (VarintSize(call.value) = 5 => call.bytes[1] = 254)
        /\ (VarintSize(call.value) = 9 => call.bytes[1] = 255)
        /\ call.res.ok
        /\ call.res.val = call.value
        /\ call.res.rest = call.trailer

\* the bytes of the reader that a successful read has consumed
Consumed(reader, res) == Slice(reader, 0, Len(reader) - Len(res.rest))

\* the reader holds a marker followed by at least n payload bytes
ReadCall(marker, n) ==
    /\ call.op = "read_varint"
    /\ Len(call.reader) >= 1 + n
    /\ call.reader[1] = marker

\* C11: a marker 0xfd, 0xfe or 0xff followed by a value that fits a
\* shorter form is rejected with InvalidVariableSizeInteger, and no two
\* different byte strings are read as the same value.
C11_OneEncodingPerValue ==
    /\ ReadCall(253, 2) /\ call.reader[3] = 0 /\ call.reader[2] < 253
            => call.res = Err("InvalidVariableSizeInteger")
    /\ ReadCall(254, 4) /\ call.reader[4] = 0 /\ call.reader[5] = 0
            => call.res = Err("InvalidVariableSizeInteger")
    /\ ReadCall(255, 8) /\ (\A i \in 6..9 : call.reader[i] = 0)
            => call.res = Err("InvalidVariableSizeInteger")
    /\ call.op = "read_varint" /\ call.res.ok =>
            \A other \in VarintReaders :
                LET r == read_variable_length_integer(other)
                IN r.ok /\ r.val = call.res.val
                    => Consumed(other, r) = Consumed(call.reader, call.res)

(***************************************************************************)
(* Properties of the transaction codec                                     *)
(***************************************************************************)
\* the byte strings the round trip is stated for
WellFormed(w) == PushesOnly(w) /\ (Legacy(w) \/ WitnessFree(w) \/ WitnessBearing(w))

\* C12: parsing a well-formed legacy, witness-free segwit-flagged or
\* witness-bearing segwit transaction and serializing the result gives back
\* the same bytes.
C12_TransactionRoundTrip ==
    call.op = "parse_serialize" /\ WellFormed(call.wire) => call.res = Ok(call.bytes)

\* C13: to_transaction_bytes writes the marker and flag bytes exactly when
\* it writes the witness stacks of the inputs.
C13_MarkerIffWitnessSection ==
    call.op = "to_transaction_bytes" /\ call.res.ok =>
        (MarkerAndFlag(call.self) = <<0, 1>> <=> WitnessSection(call.self) # <<>>)

\* C14: from_transaction_bytes returns Ok or a typed error for every byte
\* string; it never panics.
C14_ParseNeverPanics ==
    call.op = "from_transaction_bytes" => call.res # Panic

\* C15: from_transaction_bytes fails for every proper prefix of a
\* well-formed transaction.
C15_TruncatedFails ==
    call.op = "from_transaction_bytes" /\ WellFormed(call.wire)
        /\ Len(call.bytes) < Len(WireBytes(call.wire))
    => ~call.res.ok

(***************************************************************************)
(* Properties of the signer                                                *)
(***************************************************************************)
SignCall == call.op = "sign"

SignedCall == call.op = "sign" /\ call.res.ok

Before(i) == call.self.inputs[i]

After(i) == call.res.val.inputs[i]

InputsOfCall == 1..Len(call.self.inputs)

Elements(stack) == {stack[j] : j \in 1..Len(stack)}

\* the address of the input is the key's address of the same format
KeyOwns(input, private_key) ==
    /\ input.outpoint.address.some
    /\ input.outpoint.address.val.format \in {"P2PKH", "P2SH_P2WPKH", "Bech32"}
    /\ input.outpoint.address.val
           = from_private_key(private_key, input.outpoint.address.val.format).val

\* the address of the input is the P2WSH address of its redeem script
ScriptOwns(input) ==
    /\ input.outpoint.address.some
    /\ input.outpoint.address.val.format = "P2WSH"
    /\ input.outpoint.redeem_script.some
    /\ input.outpoint.address.val = p2wsh(input.outpoint.redeem_script.val).val

\* the length-prefixed signature of the key for input vin: DER bytes and
\* the sighash byte
SignatureBy(transaction, vin, private_key) ==
    LET input == transaction.inputs[vin]
        preimage == IF input.outpoint.address.val.format = "P2PKH"
                    THEN p2pkh_hash_preimage(transaction, vin, input.sighash_code)
                    ELSE segwit_hash_preimage(transaction, vin, input.sighash_code)
    IN Prefixed(SignatureDER(checksum(preimage.val), private_key.secret_key)
                    \o <<input.sighash_code>>)

\* the length-prefixed serialized public key of the key
PublicKeyBy(format, private_key) ==
    LET public_key == to_public_key(private_key)
    IN Prefixed(IF format = "P2PKH" /\ ~public_key.compressed
                THEN serialize_uncompressed(public_key.public_key)
                ELSE serialize_compressed(public_key.public_key))

\* C16: signing the result of a successful sign again with the same key
\* succeeds and changes nothing, and inputs that were signed before a sign
\* keep their script_sig, witnesses, sighash_code and is_signed.
C16_SignIdempotent ==
    SignedCall =>
        /\ sign(call.res.val, call.key) = call.res
        /\ \A i \in InputsOfCall :
              Before(i).is_signed =>
                  /\ After(i).script_sig = Before(i).script_sig
                  /\ After(i).witnesses = Before(i).witnesses
                  /\ After(i).sighash_code = Before(i).sighash_code
                  /\ After(i).is_signed

\* a sign that finds one input signed and signs another one
C16_Witness ==
    /\ SignedCall
    /\ \E i, j \in InputsOfCall :
          Before(i).is_signed /\ ~Before(j).is_signed /\ After(j).is_signed

\* C17: sign changes an input only if the input has an address and the
\* address is the key's address of its format or, for P2WSH, the address of
\* the input's redeem script.
C17_SignsOnlyOwnInputs ==
    SignedCall =>
        \A i \in InputsOfCall :
            After(i) # Before(i) => KeyOwns(Before(i), call.key) \/ ScriptOwns(Before(i))

\* a sign that signs one input and leaves the unsigned input of another
\* key alone
C17_Witness ==
    /\ SignedCall
    /\ \E i, j \in InputsOfCall :
          /\ After(i) # Before(i)
          /\ Before(j).outpoint.address.some
          /\ ~Before(j).is_signed
          /\ ~KeyOwns(Before(j), call.key)
          /\ After(j) = Before(j)

\* C18: when a second key signs a transaction whose single P2WSH input
\* carries the signature of a first key, the witness stack holds the
\* signatures of both keys afterwards.
C18_SequentialMultisig ==
    SignedCall /\ Len(call.self.inputs) = 1 /\ ScriptOwns(Before(1)) =>
        \A first \in PrivateKeys \ {call.key} :
            SignatureBy(call.self, 1, first) \in Elements(Before(1).witnesses) =>
                /\ SignatureBy(call.self, 1, first) \in Elements(After(1).witnesses)
                /\ SignatureBy(call.self, 1, call.key) \in Elements(After(1).witnesses)

\* the unsigned inputs of the key as BitcoinTransactionInput::new makes them
FreshOwnInput(i) ==
    /\ ~Before(i).is_signed
    /\ KeyOwns(Before(i), call.key)
    /\ Before(i).script_sig = <<>>
    /\ Before(i).witnesses = <<>>

FormatOf(i) == Before(i).outpoint.address.val.format

\* C19: a successful sign gives a P2PKH input of the key the script_sig
\* sig ++ pubkey and leaves its witnesses alone, a P2SH_P2WPKH input the
\* length-prefixed redeem script as script_sig and the witnesses
\* [sig, pubkey], a Bech32 input an empty script_sig and the witnesses
\* [sig, pubkey].
C19_SignedFields ==
    SignedCall =>
        \A i \in InputsOfCall :
            FreshOwnInput(i) =>
                LET sig == SignatureBy(call.self, i, call.key)
                    pubkey == PublicKeyBy(FormatOf(i), call.key)
                IN /\ After(i).is_signed
                   /\ FormatOf(i) = "P2PKH" =>
                          /\ After(i).script_sig = sig \o pubkey
                          /\ After(i).witnesses = Before(i).witnesses
                   /\ FormatOf(i) = "P2SH_P2WPKH" =>
                          /\ After(i).script_sig
                                 = Prefixed(Before(i).outpoint.redeem_script.val)
                          /\ After(i).witnesses = <<sig, pubkey>>
                   /\ FormatOf(i) = "Bech32" =>
                          /\ After(i).script_sig = <<>>
                          /\ After(i).witnesses = <<sig, pubkey>>

C19_Witness ==
    /\ SignedCall
    /\ \E i \in InputsOfCall : FreshOwnInput(i) /\ FormatOf(i) = "P2SH_P2WPKH"

\* the P2WSH inputs a sign has to fill in
OpenScriptInput(i) == ScriptOwns(Before(i)) /\ ~Before(i).is_signed

\* the two signatures in the order of the caller's flag
SignaturePair(i) ==
    LET other == Before(i).additional_witness.val
        sig == SignatureBy(call.self, i, call.key)
    IN IF other[2] THEN <<other[1], sig>> ELSE <<sig, other[1]>>

ExtraData(i) ==
    IF Before(i).witness_script_data.some
    THEN <<Prefixed(Before(i).witness_script_data.val)>>
    ELSE <<>>

\* sign fails when a P2WSH input lacks its redeem script, or lacks the
\* companion signature while it is to be signed
MissingFails ==
    SignCall =>
        /\ (\E i \in InputsOfCall :
               /\ Before(i).outpoint.address.some
               /\ FormatOf(i) = "P2WSH"
               /\ ~Before(i).outpoint.redeem_script.some)
           => call.res = Err("InvalidInputs")
        /\ (\E i \in InputsOfCall :
               OpenScriptInput(i) /\ ~Before(i).additional_witness.some)
           => call.res = Err("InvalidInputs")

\* C20 as stated: the extra witness stack data comes first, then the two
\* signatures, then the witness script.
C20_P2WSHDataFirst ==
    /\ MissingFails
    /\ SignedCall =>
          \A i \in InputsOfCall :
              OpenScriptInput(i) =>
                  After(i).witnesses
                      = Before(i).witnesses \o ExtraData(i) \o SignaturePair(i)
                            \o <<Prefixed(Before(i).outpoint.redeem_script.val)>>

\* C20: a successful sign appends to the witnesses of a P2WSH input the
\* companion signature and the signer's signature in the order of the
\* flag, then the length-prefixed extra data if supplied, then the
\* length-prefixed witness script; a missing redeem script or companion
\* signature makes sign fail with InvalidInputs.
C20_P2WSHWitnessStack ==
    /\ MissingFails
    /\ SignedCall =>
          \A i \in InputsOfCall :
              OpenScriptInput(i) =>
                  /\ After(i).is_signed
                  /\ After(i).script_sig = <<>>
                  /\ After(i).witnesses
                         = Before(i).witnesses \o SignaturePair(i) \o ExtraData(i)
                               \o <<Prefixed(Before(i).outpoint.redeem_script.val)>>

C20_Witness ==
    /\ SignedCall
    /\ \E i \in InputsOfCall : OpenScriptInput(i) /\ Before(i).witness_script_data.some

\* the inputs the call has changed
SignedByCall == {i \in InputsOfCall : After(i) # Before(i)}

\* C21: after a successful sign every input the call signed has
\* is_signed = TRUE; segwit_flag is TRUE if the call added witness data to
\* an input; a call that signs only P2PKH inputs, or nothing, leaves
\* segwit_flag as it was in the receiver.
C21_SignedAndSegwitFlag ==
    SignedCall =>
        /\ \A i \in SignedByCall : After(i).is_signed
        /\ (\E i \in InputsOfCall : After(i).witnesses # Before(i).witnesses)
               => call.res.val.segwit_flag
        /\ (\A i \in SignedByCall : FormatOf(i) = "P2PKH")
               => call.res.val.segwit_flag = call.self.segwit_flag

\* a sign that adds witness data to an input of a transaction whose
\* segwit_flag was FALSE
C21_Witness ==
    /\ SignedCall
    /\ ~call.self.segwit_flag
    /\ \E i \in InputsOfCall : After(i).witnesses # Before(i).witnesses

\* a script with its length prefix
LengthPrefixed(script) == variable_length_integer(USize(Len(script))).val \o script

\* the script field that the description of writing gives an input
DescribedScript(input) ==
    IF input.is_signed THEN LengthPrefixed(input.script_sig)
    ELSE IF Len(input.script_sig) > 0 \/ ~input.outpoint.address.some THEN <<0>>
    ELSE IF input.outpoint.address.val.format \in {"Bech32", "P2WSH"} THEN <<0>>
    ELSE LengthPrefixed(input.outpoint.script_pub_key.val)

DescribedInput(input) ==
    input.outpoint.reverse_transaction_id \o U32ToLE(input.outpoint.index)
        \o DescribedScript(input) \o input.sequence

\* the bytes of a transaction up to the end of its inputs, as described
DescribedInputs(self) ==
    U32ToLE(self.version) \o MarkerAndFlag(self)
        \o variable_length_integer(USize(Len(self.inputs))).val
        \o Flatten([i \in 1..Len(self.inputs) |-> DescribedInput(self.inputs[i])])

\* C26: the bytes of to_transaction_bytes hold, for each input in order,
\* a 0x00 placeholder if the input is unsigned without scriptSig and its
\* format is Bech32 or P2WSH, the length-prefixed script_pub_key of the
\* outpoint if it is unsigned without scriptSig and its format is P2PKH or
\* P2SH_P2WPKH, and the length-prefixed script_sig if it is signed.
C26_UnsignedWritesPriorScript ==
    (call.op = "to_transaction_bytes" /\ call.res.ok) =>
        With(DescribedInputs(call.self), LAMBDA described :
            /\ Len(described) <= Len(call.res.val)
            /\ Slice(call.res.val, 0, Len(described)) = described)

(***************************************************************************)
(* Properties of outpoints                                                 *)
(***************************************************************************)
OutpointCall == call.op = "outpoint_new"

OutpointFormat == call.address.val.format

\* C24: Outpoint::new with a P2WSH or P2SH_P2WPKH address and no redeem
\* script fails with InvalidInputs, with a P2PKH or Bech32 address and a
\* redeem script it fails with InvalidInputs, without a supplied
\* script_pub_key it stores create_script_pub_key(address), and without an
\* address it stores neither script.
C24_RedeemScriptRule ==
    OutpointCall =>
        IF call.address.some
        THEN /\ OutpointFormat \in {"P2WSH", "P2SH_P2WPKH"} /\ ~call.redeem_script.some
                    => call.res = Err("InvalidInputs")
             /\ OutpointFormat \in {"P2PKH", "Bech32"} /\ call.redeem_script.some
                    => call.res = Err("InvalidInputs")
             /\ ~call.script_pub_key.some /\ call.res.ok
                    => call.res.val.script_pub_key
                           = Some(create_script_pub_key(call.address.val).val)
        ELSE /\ call.res.ok
             /\ call.res.val.script_pub_key = None
             /\ call.res.val.redeem_script = None

\* the shape of the script_pub_key of an address format
HasShape(format, script) ==
    CASE format = "P2PKH" ->
             /\ Len(script) >= 2
             /\ script[1] = OP_DUP
             /\ script[2] = OP_HASH160
             /\ script[Len(script)] = OP_CHECKSIG
      [] format = "P2SH_P2WPKH" ->
             /\ Len(script) >= 2
             /\ script[1] = OP_HASH160
             /\ script[Len(script)] = OP_EQUAL
      [] format = "P2WSH" ->
             /\ Len(script) = 34
             /\ script[1] = 0
             /\ script[2] = 32
      [] format = "Bech32" -> TRUE

\* the call passes the redeem-script rule and supplies a script_pub_key
ShapeCheckedCall ==
    /\ OutpointCall
    /\ call.address.some
    /\ call.script_pub_key.some
    /\ call.redeem_script.some = (OutpointFormat \in {"P2WSH", "P2SH_P2WPKH"})

\* C25: Outpoint::new rejects with InvalidScriptPubKey every supplied
\* script_pub_key that violates one of the conditions of the shape of the
\* address format, and a script of fewer than 2 bytes gives an error, not
\* an abort.
C25_RejectsWrongShape ==
    ShapeCheckedCall =>
        /\ ~HasShape(OutpointFormat, call.script_pub_key.val)
               => call.res = Err("InvalidScriptPubKey")
        /\ call.res # Panic

(***************************************************************************)
(* Properties of amounts                                                   *)
(***************************************************************************)
\* -MAX_COINS <= a <= MAX_COINS
InBounds(a) == LimbsLE(a, MAX_COINS) \/ LimbsLE(MinusMAX_COINS, a)

\* the sum or the difference of the call does not fit an i64
SumLeavesI64 ==
    IF call.op = "add"
    THEN /\ IsNegative(call.self) = IsNegative(call.b)
         /\ IsNegative(wrapping_add(call.self, call.b, 0)) # IsNegative(call.self)
    ELSE /\ IsNegative(call.self) # IsNegative(call.b)
         /\ IsNegative(wrapping_add(call.self, BitNot(call.b), 1)) # IsNegative(call.self)

\* C27: an amount returned by from_satoshi, add or sub lies within
\* -MAX_COINS..MAX_COINS, and add and sub of any two i64 values return
\* AmountOutOfBounds when the sum or difference leaves i64: they neither
\* abort nor return a wrapped value.
C27_AmountsInBounds ==
    /\ (call.op \in {"from_satoshi", "add", "sub"} /\ call.res.ok) => InBounds(call.res.val)
    /\ call.op \in {"add", "sub"} =>
           /\ call.res # Panic
           /\ SumLeavesI64 => call.res = Err("AmountOutOfBounds")

\* the result the description gives from_ubtc .. from_btc
ScaledAmount(denomination, value) ==
    With(Product(value, precision(denomination)), LAMBDA product :
        IF ~product.overflowed /\ InBounds(product.wrapped) THEN Ok(product.wrapped)
        ELSE Err("AmountOutOfBounds"))

\* C29: from_ubtc, from_mbtc, from_cbtc, from_dbtc and from_btc return the
\* value times 10^2, 10^5, 10^6, 10^7 and 10^8 satoshis, and
\* AmountOutOfBounds when that product is out of range.
C29_DenominationsScale ==
    call.op = "from_denomination" => call.res = ScaledAmount(call.denomination, call.value)

(***************************************************************************)
(* Properties of child indices                                             *)
(***************************************************************************)
HasHardenedSuffix(text) == Len(text) > 0 /\ text[Len(text)] \in {39, 104}

\* the number that the text of a child index spells
SpelledNumber(text) ==
    With(parse_u32(IF HasHardenedSuffix(text) THEN Slice(text, 0, Len(text) - 1) ELSE text),
         LAMBDA number : number.val[1] * 65536 + number.val[2])

\* "m/44'/0'/0'/0/0"
ExamplePath == <<109, 47, 52, 52, 39, 47, 48, 39, 47, 48, 39, 47, 48, 47, 48>>

\* C28: a child-index text with the suffix ' or h parses to Hardened(n) and
\* one without it to Normal(n); a ChildIndex below 2^31 is returned by
\* parsing its displayed text and by converting it to u32 and back; and
\* m/44'/0'/0'/0/0 parses to three hardened and two normal indices.
C28_ChildIndexRoundTrips ==
    /\ (call.op \in {"child_index_from_str", "display_parse"} /\ call.res.ok) =>
           call.res.val = IF HasHardenedSuffix(call.text)
                          THEN Hardened(SpelledNumber(call.text))
                          ELSE Normal(SpelledNumber(call.text))
    /\ call.op = "display_parse" => call.res = Ok(call.index)
    /\ call.op = "u32_and_back" => call.res = call.index
    /\ (call.op = "path_from_str" /\ call.text = ExamplePath) =>
           /\ call.res.ok
           /\ to_vec(call.res.val)
                  = Ok(<<Hardened(44), Hardened(0), Hardened(0), Normal(0), Normal(0)>>)

(***************************************************************************)
(* Properties of mnemonics                                                 *)
(***************************************************************************)
PhraseWords == Split(call.phrase, 32, 0)

\* the phrase has a supported number of words, all of the table
ListedPhrase ==
    /\ Len(PhraseWords) \in {12, 15, 18, 21, 24}
    /\ WordIndices(PhraseWords, 1).ok

\* the checksum bits of the final word of the phrase
FinalChecksum == WordIndices(PhraseWords, 1).val[Len(PhraseWords)] % 2^(Len(PhraseWords) \div 3)

\* the leading bits of SHA-256 of the entropy that the phrase spells
SpelledChecksum ==
    With(EntropyOfIndices(WordIndices(PhraseWords, 1).val, (Len(PhraseWords) * 32) \div 3),
         LAMBDA entropy : sha256(entropy)[1] \div 2^(8 - (Len(PhraseWords) \div 3)))

\* C22: from_phrase(to_phrase(e)) returns the entropy e of 16, 20, 24, 28
\* or 32 bytes; from_phrase accepts a phrase of 12, 15, 18, 21 or 24 listed
\* words only if the phrase of the decoded entropy is the same text; and a
\* phrase of listed words whose final word carries other checksum bits than
\* those of its entropy is rejected with InvalidPhrase.
C22_PhraseRoundTrip ==
    /\ call.op = "phrase_and_back" =>
           /\ call.phrase.ok
           /\ call.res = Ok([entropy |-> call.entropy])
    /\ (call.op = "from_phrase" /\ call.res.ok) =>
           /\ ListedPhrase
           /\ to_phrase(call.res.val) = Ok(call.phrase)
    /\ (call.op = "from_phrase" /\ ListedPhrase /\ FinalChecksum # SpelledChecksum) =>
           call.res = Err("InvalidPhrase")

C22_Witness ==
    /\ call.op = "from_phrase"
    /\ ListedPhrase
    /\ FinalChecksum # SpelledChecksum
    /\ call.res = Err("InvalidPhrase")

\* C23: to_seed returns a seed of 64 bytes for every mnemonic and password.
C23_SeedIs64Bytes ==
    call.op = "to_seed" => call.res.ok /\ Len(call.res.val) = 64

(***************************************************************************)
(* Properties of addresses                                                 *)
(***************************************************************************)
\* C7: an address built by p2pkh, p2sh_p2wpkh, bech32 or p2wsh is parsed
\* back from its text, equal in text and format.
C7_AddressRoundTrip ==
    call.op = "render_parse_address" =>
        (call.res.ok /\ call.res.val = call.self)

\* the text is within the length bounds, its first two bytes are a slice
\* of its lower case and it is not sent to the Bech32 branch
TakesBase58Path(text) ==
    /\ Len(text) >= 14
    /\ Len(text) <= 74
    /\ is_char_boundary(to_lowercase(text), 2)
    /\ LET by_prefix == BitcoinFormat_from_address_prefix(Slice(to_lowercase(text), 0, 2))
       IN ~(by_prefix.ok /\ by_prefix.val = "Bech32")

AddressChecksumMatches(data) ==
    Slice(data, 21, 25) = Slice(checksum(Slice(data, 0, 21)), 0, 4)

\* C8: on the Base58 path from_str returns an address only for a payload of
\* 25 bytes whose last 4 bytes are the checksum of the first 21; another
\* length fails with InvalidByteLength; a wrong checksum is rejected.
C8_Base58PayloadChecked ==
    (/\ call.op = "address_from_str"
     /\ TakesBase58Path(call.text)
     /\ from_base58(call.text).ok) =>
        LET data == from_base58(call.text).val
        IN /\ call.res.ok => (Len(data) = 25 /\ AddressChecksumMatches(data))
           /\ Len(data) # 25 => (~call.res.ok /\ call.res.err = "InvalidByteLength")
           /\ (Len(data) = 25 /\ ~AddressChecksumMatches(data)) => ~call.res.ok

\* the address a from_str call has accepted
Parsed == call.res.val

ParsedText == IF call.op = "address_from_str" THEN call.text ELSE call.self.address

\* the redeem script Outpoint::new requires for the format
RequiredRedeemScript(format) ==
    IF format \in {"P2WSH", "P2SH_P2WPKH"} THEN Some(<<81>>) ELSE None

\* C30: an address accepted by from_str is labelled with a segwit format
\* exactly if its text is a bech32 string, a Base58 text is labelled P2PKH
\* or P2SH_P2WPKH, and create_script_pub_key and Outpoint::new (with the
\* redeem script the format requires) succeed on it.
C30_FormatMatchesEncoding ==
    (call.op \in {"address_from_str", "render_parse_address"} /\ call.res.ok) =>
        /\ (Parsed.format \in {"Bech32", "P2WSH"}) = Bech32_from_str(ParsedText).ok
        /\ from_base58(ParsedText).ok /\ ~Bech32_from_str(ParsedText).ok
               => Parsed.format \in {"P2PKH", "P2SH_P2WPKH"}
        /\ create_script_pub_key(Parsed).ok
        /\ Outpoint_new(Repeat(0, 32), <<0, 0>>, Some(Parsed), None,
                        RequiredRedeemScript(Parsed.format), None).ok
====
